---- MODULE Spec2Model ----
(***************************************************************************)
(* Backtest simulation engine (BasicBackTestBot) and parameter-sweep       *)
(* orchestrator of the binance-futures-trading-bot repository.             *)
(*                                                                         *)
(* Numbers of the program are IEEE doubles; the model computes with exact  *)
(* rationals <<numerator, denominator>> (denominator > 0, lowest terms),   *)
(* so that every equality of the model is an equality "to floating-point   *)
(* tolerance" of the program.  <<0, 0>> stands for NaN / null.             *)
(***************************************************************************)
EXTENDS Integers, Sequences, FiniteSets, TLC

\* ------------------------------------------------------------------------
\* Rational arithmetic
\* ------------------------------------------------------------------------
IAbs(x) == IF x < 0 THEN -x ELSE x

RECURSIVE GCD(_, _)
GCD(a, b) == IF b = 0 THEN a ELSE GCD(b, a % b)

\* n/d with the common factor g taken out and the sign in the numerator
NormBy(n, d, g) == IF d < 0 THEN <<(-n) \div g, (-d) \div g>> ELSE <<n \div g, d \div g>>

Norm(n, d) == IF d = 0 THEN <<0, 0>> ELSE NormBy(n, d, GCD(IAbs(n), IAbs(d)))

Int2R(n) == <<n, 1>>
Zero == <<0, 1>>
NaN == <<0, 0>>
IsNaN(x) == x[2] = 0

\* Sums and products cancel common factors first, to keep the integers small.
AddBy(x, y, g) == Norm(x[1] * (y[2] \div g) + y[1] * (x[2] \div g), (x[2] \div g) * y[2])
RAdd(x, y) == IF IsNaN(x) \/ IsNaN(y) THEN NaN ELSE AddBy(x, y, GCD(x[2], y[2]))
RNeg(x) == <<-x[1], x[2]>>
RSub(x, y) == RAdd(x, RNeg(y))
MulBy(x, y, g1, g2) == Norm((x[1] \div g1) * (y[1] \div g2), (x[2] \div g2) * (y[2] \div g1))
RMul(x, y) ==
  IF IsNaN(x) \/ IsNaN(y) THEN NaN
  ELSE MulBy(x, y, GCD(IAbs(x[1]), y[2]), GCD(IAbs(y[1]), x[2]))
RInv(x) == IF x[1] = 0 THEN NaN ELSE IF x[1] < 0 THEN <<-x[2], -x[1]>> ELSE <<x[2], x[1]>>
RDiv(x, y) == IF IsNaN(x) \/ IsNaN(y) THEN NaN ELSE RMul(x, RInv(y))
RAbs(x) == <<IAbs(x[1]), x[2]>>
RSign(x) == IF x[1] > 0 THEN 1 ELSE IF x[1] < 0 THEN -1 ELSE 0
\* Comparison of a/b and c/d by their continued fractions: exact, and without the
\* cross products
RECURSIVE FracCmp(_, _, _, _)
FracCmp(a, b, c, d) ==
  IF a \div b # c \div d THEN (IF a \div b < c \div d THEN -1 ELSE 1)
  ELSE IF a % b = 0 /\ c % d = 0 THEN 0
  ELSE IF a % b = 0 THEN -1
  ELSE IF c % d = 0 THEN 1
  ELSE FracCmp(d, c % d, b, a % b)
RCmp(x, y) ==
  IF x[2] = y[2] THEN (IF x[1] < y[1] THEN -1 ELSE IF x[1] > y[1] THEN 1 ELSE 0)
  ELSE FracCmp(x[1], x[2], y[1], y[2])
RLt(x, y) == ~IsNaN(x) /\ ~IsNaN(y) /\ RCmp(x, y) < 0
RLe(x, y) == ~IsNaN(x) /\ ~IsNaN(y) /\ RCmp(x, y) <= 0
RGt(x, y) == RLt(y, x)
RGe(x, y) == RLe(y, x)
RFloor(x) == x[1] \div x[2]

RECURSIVE Pow10(_)
Pow10(p) == IF p = 0 THEN 1 ELSE 10 * Pow10(p - 1)

\* ------------------------------------------------------------------------
\* Helpers of the repository whose source is not part of the sources at hand
\* ------------------------------------------------------------------------

\* floor(n * 10^p / d) for d > 0, one decimal digit at a time
RECURSIVE FloorScaled(_, _, _)
FloorScaled(n, d, p) ==
  IF p = 0 THEN n \div d
  ELSE (n \div d) * Pow10(p) + FloorScaled(10 * (n % d), d, p - 1)

\* utils/math decimalFloor(value, precision): the value cut down to `precision`
\* decimals
decimalFloor(x, precision) ==
  IF IsNaN(x) THEN NaN ELSE Norm(FloorScaled(x[1], x[2], precision), Pow10(precision))

\* utils/math decimalCeil(value, precision)
decimalCeil(x, precision) ==
  IF IsNaN(x) THEN NaN ELSE RNeg(decimalFloor(RNeg(x), precision))

\* utils/math decimalRound(value, precision): the value rounded to `precision`
\* decimals (Math.round: half up)
decimalRound(x, precision) ==
  IF IsNaN(x) THEN NaN
  ELSE decimalFloor(RAdd(x, Norm(1, 2 * Pow10(precision))), precision)

\* tools/counter Counter: a countdown starting at its maximum; decrement() lowers it
\* by one, reset() puts it back to the maximum, getValue() reads it.
CounterDecrement(value) == value - 1
CounterReset(max) == max

\* ------------------------------------------------------------------------
\* Exchange constants
\* ------------------------------------------------------------------------
\* Exchange fees in percent (BotConfig taker_fees_futures / maker_fees_futures)
TAKER_FEES == <<1, 25>>
MAKER_FEES == <<1, 50>>
Percent(x) == RDiv(x, Int2R(100))

\* checkPositionMargin: maintenanceMarginRate = 0.005
maintenanceMarginRate == <<1, 200>>

Pairs == {"BTCUSDT"}

\* ------------------------------------------------------------------------
\* Position & Margin Ledger (pure steps on the bot state b)
\* ------------------------------------------------------------------------
\* b = [cfg, initialCapital, date, wallet, openOrders, strategyReport,
\*      tradesHistoric, counters, idSource, idCount, fills, sumRealizedPnL, sumFees]
\* fills, sumRealizedPnL and sumFees are history variables: the fills applied by the
\* step in progress, and the realized PnL recorded / fees debited over the run.

Position(b, pair) == b.wallet.positions[pair]
SetPosition(b, pair, pos) == [b EXCEPT !.wallet.positions[pair] = pos]

\* getPositionPNL, line 1472: the pnl of a long position, its opposite for a short one
signedPnL(positionSide, pnl) == IF positionSide = "LONG" THEN pnl ELSE RNeg(pnl)

getPositionPNL(position, currentPrice) ==
  IF position.size # Zero /\ RGt(position.margin, Zero) /\ RGt(position.entryPrice, Zero)
  THEN LET priceChangePercent ==
             RDiv(RSub(currentPrice, position.entryPrice), position.entryPrice)
           positionValue == RAbs(RMul(position.size, position.entryPrice))
       IN signedPnL(position.positionSide, RMul(positionValue, priceChangePercent))
  ELSE Zero

\* A margin that leaves the leverage out
updatePositionMargin_NoLeverage(position) ==
  [position EXCEPT !.margin = RAbs(RMul(position.size, position.entryPrice))]

updatePositionMargin(position) ==
  [position EXCEPT !.margin =
     RDiv(RAbs(RMul(position.size, position.entryPrice)), Int2R(position.leverage))]

\* The wallet after a reduce/close: the margin released is computed from the entry
\* price the position has when this is called.
updateWalletOnPositionClose(wallet, position, closedQuantity, pnl, fees) ==
  LET releasedMargin ==
        RDiv(RAbs(RMul(closedQuantity, position.entryPrice)), Int2R(position.leverage))
  IN [wallet EXCEPT
        !.availableBalance = RAdd(@, RSub(releasedMargin, fees)),
        !.totalWalletBalance = RAdd(@, RSub(pnl, fees))]

addToHistoric(b, symbol, side, type, action, size, price, pnl) ==
  [b EXCEPT !.tradesHistoric = Append(@,
     [date |-> b.date, symbol |-> symbol, side |-> side, type |-> type,
      action |-> action, size |-> size, price |-> price, pnl |-> pnl,
      balance |-> b.wallet.totalWalletBalance])]

updateTradeStats(report, position, pnl) ==
  IF RGt(pnl, Zero)
  THEN [report EXCEPT
          !.longWinningTrade = IF position.positionSide = "LONG" THEN @ + 1 ELSE @,
          !.shortWinningTrade = IF position.positionSide = "SHORT" THEN @ + 1 ELSE @,
          !.totalProfit = RAdd(@, pnl)]
  ELSE [report EXCEPT
          !.longLostTrade = IF position.positionSide = "LONG" THEN @ + 1 ELSE @,
          !.shortLostTrade = IF position.positionSide = "SHORT" THEN @ + 1 ELSE @,
          !.totalLoss = RAdd(@, pnl)]

\* The report counters of a trade opened from flat
countNewTrade(report, side) ==
  [report EXCEPT
     !.totalTrades = @ + 1,
     !.totalLongTrades = IF side = "BUY" THEN @ + 1 ELSE @,
     !.totalShortTrades = IF side = "SELL" THEN @ + 1 ELSE @]

closeOpenOrder(b, orderId) ==
  [b EXCEPT !.openOrders = SelectSeq(@, LAMBDA o : o.id # orderId)]

closeOpenOrders(b, pair) ==
  [b EXCEPT !.openOrders = SelectSeq(@, LAMBDA o : o.pair # pair)]

\* History variables: one entry per fill applied (or market order rejected) by the
\* step from b0 to b, with the position and the wallet before and after it
logFill(b0, b, op, id, o, pnl, fee) ==
  [b EXCEPT
     !.fills = Append(@, [op |-> op, id |-> id, pair |-> o.pair, type |-> o.type,
                          side |-> o.side, quantity |-> o.quantity, price |-> o.price,
                          pnl |-> pnl, fee |-> fee,
                          before |-> Position(b0, o.pair), after |-> Position(b, o.pair),
                          availableBefore |-> b0.wallet.availableBalance,
                          availableAfter |-> b.wallet.availableBalance,
                          totalBefore |-> b0.wallet.totalWalletBalance,
                          totalAfter |-> b.wallet.totalWalletBalance,
                          reportBefore |-> b0.strategyReport,
                          reportAfter |-> b.strategyReport,
                          historicBefore |-> b0.tradesHistoric,
                          historicAfter |-> b.tradesHistoric]),
     !.sumRealizedPnL = IF IsNaN(pnl) THEN @ ELSE RAdd(@, pnl),
     !.sumFees = RAdd(@, fee),
     !.realizedPnLs = IF IsNaN(pnl) THEN @ ELSE Append(@, pnl)]

\* Math.random().toString(16).slice(2): the k-th identifier drawn in a run.  The
\* identifiers of a run are pairwise distinct; which ones they are is given by
\* idSource, an arbitrary arrangement of the identifiers.
newOrderId(b) ==
  LET n == Len(b.idSource)
  IN b.idSource[(b.idCount % n) + 1] + n * (b.idCount \div n)

pushOrder(b, o) ==
  [b EXCEPT
     !.openOrders = Append(@, [id |-> newOrderId(b), pair |-> o.pair, type |-> o.type,
                               side |-> o.side, price |-> o.price,
                               quantity |-> o.quantity]),
     !.idCount = @ + 1]

\* order(...), lines 1562-1588: the funded market order is applied to the position
\* and to the wallet
marketOpenApplied(b, o, position, fees, requiredMargin, fixedQuantity) ==
  LET hasPosition == position.size # Zero
      totalCost == RAdd(RMul(o.price, RAbs(fixedQuantity)),
                        IF hasPosition THEN RMul(position.entryPrice, RAbs(position.size))
                        ELSE Zero)
      totalQuantity == RAdd(RAbs(fixedQuantity),
                            IF hasPosition THEN RAbs(position.size) ELSE Zero)
      newEntryPrice == RDiv(totalCost, totalQuantity)
      pos1 == updatePositionMargin(
                [position EXCEPT
                   !.size = RAdd(@, fixedQuantity),
                   !.entryPrice = newEntryPrice,
                   !.positionSide = IF o.side = "BUY" THEN "LONG" ELSE "SHORT"])
      b2 == [SetPosition(b, o.pair, pos1) EXCEPT
               !.wallet.availableBalance = RSub(@, RAdd(requiredMargin, fees)),
               !.wallet.totalWalletBalance = RSub(@, fees),
               !.strategyReport =
                  [(IF hasPosition THEN @ ELSE countNewTrade(@, o.side))
                     EXCEPT !.totalFees = RAdd(@, fees)]]
  IN logFill(b, addToHistoric(b2, o.pair, o.side, o.type, "OPEN", fixedQuantity,
                              o.price, NaN),
             "OPEN", 0, o, NaN, fees)

\* A market order applied without looking at the available balance
marketOpenFunded_Unchecked(b, o, position, fees, requiredMargin) ==
  marketOpenApplied(b, o, position, fees, requiredMargin,
                    decimalRound(o.quantity, b.cfg[o.pair].quantityPrecision))

\* order(...), lines 1558-1589: the market order is applied when the available
\* balance covers its margin and its fee
marketOpenFunded(b, o, position, fees, requiredMargin) ==
  IF RGe(b.wallet.availableBalance, RAdd(requiredMargin, fees))
  THEN marketOpenApplied(b, o, position, fees, requiredMargin,
                         decimalRound(o.quantity, b.cfg[o.pair].quantityPrecision))
  ELSE logFill(b, b, "REJECTED", 0, o, NaN, Zero)

\* order({pair, price, quantity, side, type, date, quantityPrecision}), MARKET branch,
\* opening or adding to the position
orderMarketOpen(b, o) ==
  marketOpenFunded(b, o, Position(b, o.pair),
                   RMul(RMul(o.price, RAbs(o.quantity)), Percent(TAKER_FEES)),
                   RDiv(RMul(o.price, RAbs(o.quantity)),
                        Int2R(Position(b, o.pair).leverage)))

\* order(...), lines 1614-1615: the wallet is settled with the position as it is by then
settleWallet(b, pair, closedQuantity, pnl, fees) ==
  [b EXCEPT !.wallet =
     updateWalletOnPositionClose(@, Position(b, pair), closedQuantity, pnl, fees)]

\* order(...), lines 1599-1615: the position with its new size pos1 is closed or
\* re-margined, then the wallet is settled
marketCloseSettled(b, o, fees, closingPnL, fixedQuantity, pos1) ==
  LET closed == pos1.size = Zero
      pos2 == IF closed
              THEN [pos1 EXCEPT !.margin = Zero, !.entryPrice = Zero,
                                !.unrealizedProfit = Zero]
              ELSE updatePositionMargin(pos1)
  IN settleWallet([SetPosition(b, o.pair, pos2) EXCEPT
                     !.strategyReport =
                        IF closed THEN updateTradeStats(@, pos1, closingPnL) ELSE @],
                  o.pair, fixedQuantity, closingPnL, fees)

\* order(...), lines 1595-1617, with the closing PnL and the rounded quantity computed
marketCloseApplied(b, o, fees, closingPnL, fixedQuantity) ==
  logFill(b,
          addToHistoric(
            marketCloseSettled(b, o, fees, closingPnL, fixedQuantity,
                               [Position(b, o.pair) EXCEPT
                                  !.size = RAdd(@, fixedQuantity)]),
            o.pair, o.side, o.type, "CLOSE", fixedQuantity, o.price, closingPnL),
          "CLOSE", 0, o, closingPnL, fees)

\* order(...), MARKET branch, closing or reducing the position
orderMarketClose(b, o) ==
  marketCloseApplied(b, o,
                     RMul(RMul(o.price, RAbs(o.quantity)), Percent(TAKER_FEES)),
                     getPositionPNL(Position(b, o.pair), o.price),
                     decimalRound(o.quantity, b.cfg[o.pair].quantityPrecision))

\* order(...), LIMIT branch: the order is queued when canOrder
canOrder(b, o, position, baseCost) ==
  IF position.size # Zero
  THEN (IF o.side = (IF position.positionSide = "LONG" THEN "BUY" ELSE "SELL")
        THEN RGe(b.wallet.availableBalance, baseCost)
        ELSE TRUE)
  ELSE RGe(b.wallet.availableBalance, baseCost)

orderLimit(b, o) ==
  LET position == Position(b, o.pair)
      baseCost == RSub(RDiv(RAbs(RMul(o.price, o.quantity)), Int2R(position.leverage)),
                       position.margin)
  IN IF canOrder(b, o, position, baseCost) THEN pushOrder(b, o) ELSE b

order(b, o) ==
  LET position == Position(b, o.pair)
      hasPosition == position.size # Zero
  IN IF o.type = "MARKET"
     THEN IF \/ ~hasPosition
             \/ (hasPosition /\ position.positionSide = "LONG" /\ o.side = "BUY")
             \/ (hasPosition /\ position.positionSide = "SHORT" /\ o.side = "SELL")
          THEN orderMarketOpen(b, o)
          ELSE IF \/ (position.positionSide = "LONG" /\ o.side = "SELL")
                  \/ (position.positionSide = "SHORT" /\ o.side = "BUY")
               THEN orderMarketClose(b, o)
               ELSE b
     ELSE IF o.type = "LIMIT" THEN orderLimit(b, o)
     ELSE pushOrder(b, o)

\* ------------------------------------------------------------------------
\* Liquidation Checker
\* ------------------------------------------------------------------------
Liquidable(position, currentPrice) ==
  LET positionValue == RAbs(RMul(position.size, currentPrice))
      maintenanceMargin == RMul(positionValue, maintenanceMarginRate)
      unrealizedProfit == getPositionPNL(position, currentPrice)
      currentMargin == RAdd(position.margin, unrealizedProfit)
  IN position.size # Zero /\ RLe(currentMargin, maintenanceMargin)

\* checkPositionMargin, lines 1260-1270: the liquidation enters the trade statistics
\* and the historic
recordLiquidation(b, pair, side, size, currentPrice, unrealizedProfit) ==
  addToHistoric([b EXCEPT !.strategyReport =
                    updateTradeStats(@, Position(b, pair), unrealizedProfit)],
                pair, side, "MARKET", "CLOSE", size, currentPrice, unrealizedProfit)

\* checkPositionMargin, lines 1247-1270: the position is closed at the market, the
\* pending orders of the pair are cancelled
liquidate(b, pair, currentPrice, position, unrealizedProfit) ==
  LET side == IF position.positionSide = "LONG" THEN "SELL" ELSE "BUY"
  IN recordLiquidation(
       closeOpenOrders(order(b, [pair |-> pair, price |-> currentPrice,
                                 quantity |-> RNeg(position.size), side |-> side,
                                 type |-> "MARKET"]),
                       pair),
       pair, side, RNeg(position.size), currentPrice, unrealizedProfit)

checkPositionMargin(b, pair, currentPrice) ==
  IF Liquidable(Position(b, pair), currentPrice)
  THEN liquidate(b, pair, currentPrice, Position(b, pair),
                 getPositionPNL(Position(b, pair), currentPrice))
  ELSE b

\* ------------------------------------------------------------------------
\* Order Matching Engine
\* ------------------------------------------------------------------------
\* Array.prototype.sort((order1, order2) => order2.price - order1.price): a stable
\* sort, highest price first
RECURSIVE insertByPrice(_, _)
insertByPrice(sorted, o) ==
  IF sorted = <<>> THEN <<o>>
  ELSE IF RGe(Head(sorted).price, o.price)
       THEN <<Head(sorted)>> \o insertByPrice(Tail(sorted), o)
       ELSE <<o>> \o sorted

RECURSIVE sortOrders(_)
sortOrders(orders) ==
  IF orders = <<>> THEN <<>>
  ELSE insertByPrice(sortOrders(SubSeq(orders, 1, Len(orders) - 1)), orders[Len(orders)])

InRange(lastCandle, price) == RGt(lastCandle.high, price) /\ RLt(lastCandle.low, price)

Opposes(position, side) ==
  \/ (position.positionSide = "LONG" /\ side = "SELL")
  \/ (position.positionSide = "SHORT" /\ side = "BUY")

\* checkOpenOrders, LIMIT fill, first block (lines 1301-1341): the order is applied as
\* an addition when the available balance covers it.  snap holds entryPrice, size,
\* leverage and hasPosition as read at the start of the matching pass.
limitAddChecked(b, o, snap, position, fees, baseCost) ==
  IF Opposes(position, o.side) /\ RGe(b.wallet.availableBalance, RAdd(baseCost, fees))
  THEN LET avgEntryPrice ==
             RDiv(RAdd(RMul(o.price, RAbs(o.quantity)),
                       RMul(snap.entryPrice, RAbs(snap.size))),
                  RAdd(RAbs(o.quantity), RAbs(snap.size)))
           pos1 == updatePositionMargin(
                     [position EXCEPT !.size = RAdd(@, o.quantity),
                                      !.entryPrice = avgEntryPrice])
           b1 == [SetPosition(b, o.pair, pos1) EXCEPT
                    !.wallet.availableBalance = RSub(@, RAdd(baseCost, fees)),
                    !.wallet.totalWalletBalance = RSub(@, fees),
                    !.strategyReport =
                       [(IF snap.hasPosition THEN @ ELSE countNewTrade(@, o.side))
                          EXCEPT !.totalFees = RAdd(@, fees)]]
       IN logFill(b, addToHistoric(b1, o.pair, o.side, "LIMIT", "OPEN", o.quantity,
                                   o.price, NaN),
                  "LIMIT_ADD", o.id, o, NaN, fees)
  ELSE b

fillLimitAdd(b, o, snap) ==
  limitAddChecked(b, o, snap, Position(b, o.pair),
                  RMul(RMul(RAbs(o.quantity), o.price), Percent(MAKER_FEES)),
                  RDiv(RMul(o.price, RAbs(o.quantity)), Int2R(snap.leverage)))

\* Lines 1369-1378: the flipped position pos is installed, its margin is taken from
\* the available balance and a new trade is counted
installFlipped(b, o, pos) ==
  [SetPosition(b, o.pair, pos) EXCEPT
     !.wallet.availableBalance = RSub(@, pos.margin),
     !.strategyReport = countNewTrade(@, o.side)]

\* Line 1372: position.unrealizedProfit = getPositionPNL(position, price)
withUnrealizedProfit(position, price) ==
  [position EXCEPT !.unrealizedProfit = getPositionPNL(position, price)]

\* The position after a fill crossed zero (lines 1365-1379)
flipPosition(b, o) ==
  LET position == Position(b, o.pair)
  IN IF \/ (position.positionSide = "SHORT" /\ RGt(position.size, Zero))
        \/ (position.positionSide = "LONG" /\ RLt(position.size, Zero))
     THEN installFlipped(b, o,
            withUnrealizedProfit(
              [position EXCEPT
                 !.entryPrice = o.price,
                 !.positionSide = IF @ = "LONG" THEN "SHORT" ELSE "LONG"],
              o.price))
     ELSE b

\* Lines 1347-1363 and 1415-1427: the wallet is settled on the position pos1 with its
\* new size and margin; a position brought to zero is counted and reset
reduceTo(b, o, fees, closingPnL, pos1) ==
  LET closed == pos1.size = Zero
  IN SetPosition([b EXCEPT
                    !.wallet = updateWalletOnPositionClose(@, pos1, o.quantity,
                                                           closingPnL, fees),
                    !.strategyReport =
                       IF closed THEN updateTradeStats(@, pos1, closingPnL) ELSE @],
                 o.pair,
                 IF closed
                 THEN [pos1 EXCEPT !.entryPrice = Zero, !.unrealizedProfit = Zero,
                                   !.margin = Zero]
                 ELSE pos1)

\* The reduce/close shared by the LIMIT second block (1343-1363) and the STOP fill
\* (1411-1427)
reducePosition(b, o, fees) ==
  reduceTo(b, o, fees, getPositionPNL(Position(b, o.pair), o.price),
           updatePositionMargin([Position(b, o.pair) EXCEPT
                                   !.size = RAdd(@, o.quantity)]))

\* Lines 1381-1395: the historic row of the fill, CLOSE when the position is flat
recordLimitClose(b, o, closingPnL) ==
  addToHistoric(b, o.pair, o.side, o.type,
                IF Position(b, o.pair).size = Zero THEN "CLOSE" ELSE "OPEN",
                o.quantity, o.price, closingPnL)

limitCloseApplied(b, o, fees, closingPnL) ==
  logFill(b, recordLimitClose(flipPosition(reducePosition(b, o, fees), o), o, closingPnL),
          "LIMIT_CLOSE", o.id, o, closingPnL, fees)

\* checkOpenOrders, LIMIT fill, second block (lines 1343-1396)
fillLimitClose(b, o) ==
  IF Opposes(Position(b, o.pair), o.side)
  THEN limitCloseApplied(b, o,
                         RMul(RMul(RAbs(o.quantity), o.price), Percent(MAKER_FEES)),
                         getPositionPNL(Position(b, o.pair), o.price))
  ELSE b

fillLimit(b, o, snap) == closeOpenOrder(fillLimitClose(fillLimitAdd(b, o, snap), o), o.id)

stopApplied(b, o, fees, closingPnL) ==
  closeOpenOrders(
    logFill(b,
            addToHistoric(reducePosition(b, o, fees), o.pair, o.side, o.type, "CLOSE",
                          o.quantity, o.price, closingPnL),
            "STOP", o.id, o, closingPnL, fees),
    o.pair)

\* checkOpenOrders, STOP / STOP_MARKET fill (lines 1401-1446)
fillStop(b, o) ==
  stopApplied(b, o,
              IF o.type = "STOP"
              THEN RMul(RMul(RAbs(o.quantity), o.price), Percent(MAKER_FEES))
              ELSE RMul(RMul(RAbs(o.quantity), o.price), Percent(TAKER_FEES)),
              getPositionPNL(Position(b, o.pair), o.price))

\* Lines 1448-1455: whether the matching pass goes on after an order
continueMatching(position) == position.size # Zero

\* Lines 1297-1399: a LIMIT order whose price the candle crossed is filled
matchLimit(b, o, snap, lastCandle) ==
  IF o.type = "LIMIT" /\ InRange(lastCandle, o.price) THEN fillLimit(b, o, snap) ELSE b

\* Lines 1401-1446: a STOP or STOP_MARKET order whose price the candle crossed is filled
matchStop(b, o, lastCandle) ==
  IF o.type \in {"STOP", "STOP_MARKET"} /\ InRange(lastCandle, o.price)
  THEN fillStop(b, o)
  ELSE b

RECURSIVE matchOrders(_, _, _, _, _)
\* Lines 1448-1455: the pass goes on with the next order, or ends
matchNext(b, orders, i, snap, lastCandle) ==
  IF continueMatching(Position(b, orders[i].pair))
  THEN matchOrders(b, orders, i + 1, snap, lastCandle)
  ELSE closeOpenOrders(b, orders[i].pair)

matchOrders(b, orders, i, snap, lastCandle) ==
  IF i > Len(orders) THEN b
  ELSE matchNext(matchStop(matchLimit(b, orders[i], snap, lastCandle), orders[i],
                           lastCandle),
                 orders, i, snap, lastCandle)

checkOpenOrders(b, pair, lastCandle) ==
  IF Len(b.openOrders) > 0
  THEN LET orders == SelectSeq(b.openOrders, LAMBDA o : o.pair = pair)
           position == Position(b, pair)
           snap == [entryPrice |-> position.entryPrice, size |-> position.size,
                    leverage |-> position.leverage, hasPosition |-> position.size # Zero]
       IN matchOrders(b, sortOrders(orders), 1, snap, lastCandle)
  ELSE b

\* ------------------------------------------------------------------------
\* Simulation Loop: the strategy evaluation of one symbol (trade)
\* ------------------------------------------------------------------------
\* sig is what the strategy callbacks return on the current bar window:
\*   buy, sell      buyStrategy(candles), sellStrategy(candles)
\*   trend          trendFilter(candles): "up" (1), "down" (-1), "flat" (0),
\*                  or "none" when the configuration has no trend filter
\*   session        isOnTradingSession(closeTime, tradingSessions)
\*   takeProfits    exitStrategy(...).takeProfits as <<[delta, quantityPercentage]>>,
\*                  the price being currentPrice + delta on the profit side
\*   stopLoss       exitStrategy(...).stopLoss as a distance to currentPrice on the
\*                  loss side, Zero for null
\*   quantity       riskManagement(...)

trailingHistoric(b, pair, currentPrice, currentPnL) ==
  LET up == RGt(currentPnL, Zero)
  IN addToHistoric(b, pair, IF up THEN "BUY" ELSE "SELL", "MARKET",
                   IF up THEN "OPEN" ELSE "CLOSE", RAbs(currentPnL), currentPrice,
                   currentPnL)

\* the forced close without the cancellation of the pending orders
durationClose_KeepsOrders(b, pair, currentPrice, position, closingPnL) ==
  LET side == IF RGt(position.size, Zero) THEN "SELL" ELSE "BUY"
      pos1 == [position EXCEPT !.size = Zero, !.margin = Zero, !.entryPrice = Zero,
                               !.unrealizedProfit = Zero]
      b1 == [SetPosition(b, pair, pos1) EXCEPT
               !.strategyReport = updateTradeStats(@, pos1, closingPnL)]
      b2 == addToHistoric(b1, pair, side, "MARKET", "CLOSE", RNeg(position.size),
                          currentPrice, closingPnL)
      b3 == logFill(b, b2, "DURATION", 0,
                    [pair |-> pair, type |-> "MARKET", side |-> side,
                     quantity |-> RNeg(position.size), price |-> currentPrice],
                    closingPnL, Zero)
  IN [b3 EXCEPT !.counters[pair] = CounterReset(b.cfg[pair].maxTradeDuration)]

\* Lines 932-962: the position is reset without an order, the close is counted and
\* recorded, the counter is reset and the pending orders are cancelled
durationClose(b, pair, currentPrice, position, closingPnL) ==
  LET side == IF RGt(position.size, Zero) THEN "SELL" ELSE "BUY"
      pos1 == [position EXCEPT !.size = Zero, !.margin = Zero, !.entryPrice = Zero,
                               !.unrealizedProfit = Zero]
      b1 == [SetPosition(b, pair, pos1) EXCEPT
               !.strategyReport = updateTradeStats(@, pos1, closingPnL)]
      b2 == addToHistoric(b1, pair, side, "MARKET", "CLOSE", RNeg(position.size),
                          currentPrice, closingPnL)
      b3 == logFill(b, b2, "DURATION", 0,
                    [pair |-> pair, type |-> "MARKET", side |-> side,
                     quantity |-> RNeg(position.size), price |-> currentPrice],
                    closingPnL, Zero)
  IN closeOpenOrders([b3 EXCEPT !.counters[pair] = CounterReset(b.cfg[pair].maxTradeDuration)],
                     pair)

\* Lines 924-965: the position is older than maxTradeDuration evaluations
forceCloseOnDuration(b, pair, currentPrice) ==
  durationClose(b, pair, currentPrice, Position(b, pair),
                getPositionPNL(Position(b, pair), currentPrice))

RECURSIVE placeTakeProfits(_, _, _, _, _, _, _)
placeTakeProfits(b, pair, takeProfits, i, quantity, side, currentPrice) ==
  IF i > Len(takeProfits) THEN b
  ELSE LET tp == takeProfits[i]
           price == IF side = "SELL" THEN RAdd(currentPrice, tp.delta)
                    ELSE RSub(currentPrice, tp.delta)
           b1 == order(b, [pair |-> pair, price |-> price,
                           quantity |-> RMul(RNeg(quantity), tp.quantityPercentage),
                           side |-> side, type |-> "LIMIT"])
       IN placeTakeProfits(b1, pair, takeProfits, i + 1, quantity, side, currentPrice)

\* Lines 1064-1086 (long) and 1172-1194 (short): the stop order of the entry
placeStopLoss(b, pair, currentPrice, entrySide, takeProfits, stopLoss, quantity) ==
  IF stopLoss # Zero
  THEN order(b, [pair |-> pair,
                 price |-> IF entrySide = "BUY" THEN RSub(currentPrice, stopLoss)
                           ELSE RAdd(currentPrice, stopLoss),
                 quantity |-> RNeg(quantity),
                 side |-> IF entrySide = "BUY" THEN "SELL" ELSE "BUY",
                 type |-> IF Len(takeProfits) > 1 THEN "STOP_MARKET" ELSE "STOP"])
  ELSE b

\* Lines 1040-1087 (long) and 1148-1194 (short): the market order of the rounded
\* quantity, then its take-profit and stop orders
enterWith(b, pair, currentPrice, entrySide, hasOpposite, takeProfits, stopLoss, quantity) ==
  placeStopLoss(
    placeTakeProfits(
      order(b, [pair |-> pair, price |-> currentPrice,
                quantity |-> IF hasOpposite THEN RSub(quantity, Position(b, pair).size)
                             ELSE quantity,
                side |-> entrySide, type |-> "MARKET"]),
      pair, takeProfits, 1, quantity, IF entrySide = "BUY" THEN "SELL" ELSE "BUY",
      currentPrice),
    pair, currentPrice, entrySide, takeProfits, stopLoss, quantity)

\* Lines 1013-1087 (long) and 1119-1194 (short): the market entry and its derived
\* take-profit and stop orders.  entrySide is the side of the market order.
enterPosition(b, pair, currentPrice, sig, entrySide, hasOpposite, takeProfits, stopLoss) ==
  enterWith(SetPosition(b, pair,
                        [Position(b, pair) EXCEPT
                           !.size = decimalRound(@, b.cfg[pair].quantityPrecision)]),
            pair, currentPrice, entrySide, hasOpposite, takeProfits, stopLoss,
            decimalRound(IF entrySide = "BUY" THEN sig.quantity ELSE RNeg(sig.quantity),
                         b.cfg[pair].quantityPrecision))

canTakePosition(c, hasOpposite, hasSame, openCount) ==
  \/ (c.canOpenNewPositionToCloseLast /\ hasOpposite)
  \/ (~c.canOpenNewPositionToCloseLast /\ hasOpposite /\ openCount = 0)
  \/ (~c.allowPyramiding /\ ~hasSame)
  \/ (c.allowPyramiding /\ hasOpposite /\ openCount = 0)
  \/ (c.allowPyramiding /\ hasOpposite /\ openCount > 0 /\ c.canOpenNewPositionToCloseLast)

\* Lines 982-1195: one of the two entry branches; result.done tells whether trade()
\* returned early (no trailing row)
entryBranch(b, pair, currentPrice, sig, entrySide, hasOpposite, hasSame, openCount, canAddToPosition, usePlan) ==
  LET c == b.cfg[pair]
      position == Position(b, pair)
      useSide == IF entrySide = "BUY" THEN sig.trend \in {"none", "up"}
                 ELSE sig.trend \in {"none", "down"}
  IN IF hasOpposite /\ c.unidirectional
     THEN [done |-> TRUE,
           b |-> closeOpenOrders(
                   order(b, [pair |-> pair, price |-> currentPrice,
                             quantity |-> RNeg(position.size), side |-> entrySide,
                             type |-> "MARKET"]),
                   pair)]
     ELSE IF ~useSide THEN [done |-> TRUE, b |-> b]
     ELSE IF c.allowPyramiding /\ hasSame /\ ~canAddToPosition THEN [done |-> TRUE, b |-> b]
     ELSE LET b1 == IF hasOpposite /\ openCount > 0 THEN closeOpenOrders(b, pair) ELSE b
          IN [done |-> FALSE,
              b |-> enterPosition(b1, pair, currentPrice, sig, entrySide, hasOpposite,
                                  IF usePlan THEN sig.takeProfits ELSE <<>>,
                                  IF usePlan THEN sig.stopLoss ELSE Zero)]

\* Lines 966-981: with no position left the pending orders are cancelled and the
\* duration counter is reset
tidyWhenFlat(b, pair, flat, openCount) ==
  LET c == b.cfg[pair]
      b1 == IF flat /\ openCount > 0 THEN closeOpenOrders(b, pair) ELSE b
  IN IF c.maxTradeDuration > 0 /\ flat /\ b.counters[pair] < c.maxTradeDuration
     THEN [b1 EXCEPT !.counters[pair] = CounterReset(c.maxTradeDuration)]
     ELSE b1

\* Lines 982-1195: the long entry, else the short entry, else nothing.  position and
\* openCount are the position and the number of pending orders read at the start of
\* trade().
takeEntry(b, pair, currentPrice, sig, position, openCount) ==
  LET c == b.cfg[pair]
      assetBalance == b.wallet.totalWalletBalance
      hasLongPosition == RGt(position.size, Zero)
      hasShortPosition == RLt(position.size, Zero)
      canAddToPosition ==
        IF c.allowPyramiding
        THEN RLe(RAdd(position.margin, RMul(assetBalance, c.risk)),
                 RMul(assetBalance, c.maxPyramidingAllocation))
        ELSE FALSE
      canTakeLongPosition == canTakePosition(c, hasShortPosition, hasLongPosition, openCount)
      canTakeShortPosition == canTakePosition(c, hasLongPosition, hasShortPosition, openCount)
      active == sig.session \/ position.size # Zero
      long == active /\ canTakeLongPosition /\ sig.buy
      short == active /\ canTakeShortPosition /\ sig.sell
  IN IF long \/ short
     THEN entryBranch(b, pair, currentPrice, sig,
                      IF long THEN "BUY" ELSE "SELL",
                      IF long THEN hasShortPosition ELSE hasLongPosition,
                      IF long THEN hasLongPosition ELSE hasShortPosition,
                      openCount, canAddToPosition,
                      IF long THEN ~c.allowPyramiding ELSE TRUE)
     ELSE [done |-> FALSE, b |-> b]

\* Lines 1197-1207: the trailing row of the historic, unless trade() returned before
closeEvaluation(r, pair, currentPrice, currentPnL) ==
  IF r.done THEN r.b ELSE trailingHistoric(r.b, pair, currentPrice, currentPnL)

\* Lines 924-1207, after the duration counter was decremented
evaluate(b, pair, currentPrice, sig, position, openCount, tooLong) ==
  IF tooLong /\ b.counters[pair] = 0
  THEN forceCloseOnDuration(b, pair, currentPrice)
  ELSE closeEvaluation(
         takeEntry(tidyWhenFlat(b, pair,
                                ~RGt(position.size, Zero) /\ ~RLt(position.size, Zero),
                                openCount),
                   pair, currentPrice, sig, position, openCount),
         pair, currentPrice, getPositionPNL(position, currentPrice))

trade(b, pair, currentPrice, sig) ==
  LET position == Position(b, pair)
      tooLong == /\ b.cfg[pair].maxTradeDuration > 0
                 /\ (RLt(position.size, Zero) \/ RGt(position.size, Zero))
  IN evaluate(IF tooLong THEN [b EXCEPT !.counters[pair] = CounterDecrement(@)] ELSE b,
              pair, currentPrice, sig, position,
              Len(SelectSeq(b.openOrders, LAMBDA o : o.pair = pair)), tooLong)

updatePNL(b, pair, currentPrice) ==
  LET position == Position(b, pair)
  IN SetPosition(b, pair,
       [position EXCEPT !.unrealizedProfit = getPositionPNL(position, currentPrice)])

updateTotalPNL(wallet) ==
  LET open == {p \in Pairs : /\ wallet.positions[p].size # Zero
                             /\ RGt(wallet.positions[p].margin, Zero)
                             /\ RGt(wallet.positions[p].entryPrice, Zero)}
      RECURSIVE sum(_)
      sum(S) == IF S = {} THEN Zero
                ELSE LET p == CHOOSE q \in S : TRUE
                     IN RAdd(wallet.positions[p].unrealizedProfit, sum(S \ {p}))
  IN [wallet EXCEPT !.totalUnrealizedProfit = sum(open)]

\* ------------------------------------------------------------------------
\* Statistics Aggregator
\* ------------------------------------------------------------------------
updateMaxDrawdownMaxBalance(b) ==
  LET total == b.wallet.totalWalletBalance
      maxBalance1 == IF RGt(total, b.maxBalance) THEN total ELSE b.maxBalance
      absoluteDrawdown == RDiv(total, maxBalance1)
      relativeDrawdown == RDiv(RSub(total, maxBalance1), maxBalance1)
  IN [b EXCEPT
        !.maxBalance = maxBalance1,
        !.maxAbsoluteDrawdown = IF RLt(absoluteDrawdown, @) THEN absoluteDrawdown ELSE @,
        !.maxRelativeDrawdown = IF RLt(relativeDrawdown, @) THEN relativeDrawdown ELSE @]

\* calculateStrategyStats: the finalized report (the fields the sweep and the
\* reports read)
calculateStrategyStats(b) ==
  LET r == b.strategyReport
      total == b.wallet.totalWalletBalance
      totalAbsLoss == RAbs(r.totalLoss)
      totalAbsFees == RAbs(r.totalFees)
      hundred == Int2R(100)
      won == r.longWinningTrade + r.shortWinningTrade
  IN [initialCapital |-> b.initialCapital,
      finalCapital |-> decimalFloor(total, 2),
      totalNetProfit |-> decimalFloor(RSub(total, b.initialCapital), 2),
      totalProfit |-> decimalFloor(r.totalProfit, 2),
      totalLoss |-> decimalFloor(r.totalLoss, 2),
      totalFees |-> RNeg(decimalFloor(r.totalFees, 2)),
      profitFactor |-> IF RGt(RAdd(totalAbsLoss, totalAbsFees), Zero)
                       THEN decimalFloor(RDiv(r.totalProfit,
                                              RAdd(totalAbsLoss, totalAbsFees)), 2)
                       ELSE Zero,
      maxAbsoluteDrawdown |->
        RNeg(decimalFloor(RMul(RSub(Int2R(1), b.maxAbsoluteDrawdown), hundred), 2)),
      maxRelativeDrawdown |-> decimalCeil(RMul(b.maxRelativeDrawdown, hundred), 2),
      totalTrades |-> r.totalTrades,
      totalLongTrades |-> r.totalLongTrades,
      totalShortTrades |-> r.totalShortTrades,
      longWinningTrade |-> r.longWinningTrade,
      shortWinningTrade |-> r.shortWinningTrade,
      longLostTrade |-> r.longLostTrade,
      shortLostTrade |-> r.shortLostTrade,
      totalWinRate |-> IF r.totalTrades > 0
                       THEN decimalFloor(RMul(Norm(won, r.totalTrades), hundred), 2)
                       ELSE Zero,
      maxProfit |-> decimalFloor(b.extremes.maxProfit, 2),
      maxLoss |-> RNeg(decimalFloor(b.extremes.maxLoss, 2)),
      maxConsecutiveWinsCount |-> b.extremes.maxConsecutiveWinsCount,
      maxConsecutiveLossesCount |-> b.extremes.maxConsecutiveLossesCount,
      maxConsecutiveProfit |-> decimalFloor(b.extremes.maxConsecutiveProfitCount, 2),
      maxConsecutiveLoss |-> RNeg(decimalFloor(b.extremes.maxConsecutiveLossCount, 2))]

\* updateProfitLossStrategyProperty(pnl), lines 734-780: the running streaks are kept
\* in the report and flushed into the instance fields when the sign changes.  No
\* method of the class calls it.
updateProfitLossStrategyProperty(b, pnl) ==
  LET r == b.strategyReport
      e == b.extremes
  IN IF RGt(pnl, Zero)
     THEN [b EXCEPT
             !.strategyReport =
               [r EXCEPT !.totalProfit = RAdd(@, pnl),
                         !.maxConsecutiveWinsCount = @ + 1,
                         !.maxConsecutiveProfit = RAdd(@, RAbs(pnl)),
                         !.maxConsecutiveLossesCount = 0,
                         !.maxConsecutiveLoss = Zero],
             !.extremes =
               [e EXCEPT !.maxConsecutiveLossesCount =
                           IF r.maxConsecutiveLossesCount > @
                           THEN r.maxConsecutiveLossesCount ELSE @,
                         !.maxConsecutiveLossCount =
                           IF RGt(r.maxConsecutiveLoss, @) THEN r.maxConsecutiveLoss ELSE @,
                         !.maxProfit = IF RGt(RAbs(pnl), @) THEN RAbs(pnl) ELSE @]]
     ELSE IF RLt(pnl, Zero)
     THEN [b EXCEPT
             !.strategyReport =
               [r EXCEPT !.totalLoss = RAdd(@, pnl),
                         !.maxConsecutiveLossesCount = @ + 1,
                         !.maxConsecutiveLoss = RAdd(@, RAbs(pnl)),
                         !.maxConsecutiveWinsCount = 0,
                         !.maxConsecutiveProfit = Zero],
             !.extremes =
               [e EXCEPT !.maxConsecutiveWinsCount =
                           IF r.maxConsecutiveWinsCount > @
                           THEN r.maxConsecutiveWinsCount ELSE @,
                         !.maxConsecutiveProfitCount =
                           IF RGt(r.maxConsecutiveProfit, @)
                           THEN r.maxConsecutiveProfit ELSE @,
                         !.maxLoss = IF RGt(RAbs(pnl), @) THEN RAbs(pnl) ELSE @]]
     ELSE b

\* ------------------------------------------------------------------------
\* Runs: configurations and bars
\* ------------------------------------------------------------------------
MaxTicks == 4
NumIds == 2

StrategyConfig(leverage, allowPyramiding, canOpenNewPositionToCloseLast, unidirectional, maxTradeDuration, quantityPrecision) ==
  [leverage |-> leverage, allowPyramiding |-> allowPyramiding,
   canOpenNewPositionToCloseLast |-> canOpenNewPositionToCloseLast,
   unidirectional |-> unidirectional, maxTradeDuration |-> maxTradeDuration,
   quantityPrecision |-> quantityPrecision,
   risk |-> <<1, 100>>, maxPyramidingAllocation |-> <<1, 4>>]

\* The runs explored: initial capital and the configuration of the symbol
Setups ==
  { [initialCapital |-> Int2R(1000),
     config |-> StrategyConfig(1, FALSE, TRUE, FALSE, 0, 0)],
    [initialCapital |-> Int2R(1000),
     config |-> StrategyConfig(2, FALSE, FALSE, FALSE, 0, 0)],
    [initialCapital |-> Int2R(1000),
     config |-> StrategyConfig(2, TRUE, FALSE, TRUE, 2, 1)],
    [initialCapital |-> Int2R(150),
     config |-> StrategyConfig(1, FALSE, TRUE, FALSE, 1, 0)] }

NoTakeProfits == <<>>
OneTarget == << [delta |-> Int2R(10), quantityPercentage |-> Int2R(1)] >>
TwoTargets == << [delta |-> Int2R(10), quantityPercentage |-> <<3, 5>>],
                 [delta |-> Int2R(20), quantityPercentage |-> <<2, 5>>] >>

Bar(high, low, close, buy, sell, trend, takeProfits, stopLoss, quantity) ==
  [high |-> Int2R(high), low |-> Int2R(low), close |-> Int2R(close),
   buy |-> buy, sell |-> sell, trend |-> trend, session |-> TRUE,
   takeProfits |-> takeProfits, stopLoss |-> Int2R(stopLoss), quantity |-> Int2R(quantity)]

\* The bars a tick may present: the candle and what the strategy callbacks answer on it
Bars ==
  { Bar(101, 99, 100, FALSE, FALSE, "none", NoTakeProfits, 0, 1),
    Bar(101, 99, 100, TRUE, FALSE, "none", OneTarget, 10, 1),
    Bar(101, 99, 100, TRUE, FALSE, "up", TwoTargets, 10, 1),
    Bar(101, 99, 100, FALSE, TRUE, "none", OneTarget, 10, 1),
    Bar(101, 99, 100, TRUE, TRUE, "down", NoTakeProfits, 0, 2),
    Bar(125, 85, 100, FALSE, FALSE, "none", NoTakeProfits, 0, 1),
    Bar(125, 95, 110, FALSE, TRUE, "none", NoTakeProfits, 0, 1),
    Bar(115, 95, 110, FALSE, FALSE, "none", NoTakeProfits, 0, 1),
    Bar(101, 85, 90, TRUE, FALSE, "none", NoTakeProfits, 0, 2),
    Bar(100, 35, 40, FALSE, FALSE, "none", NoTakeProfits, 0, 1),
    Bar(170, 100, 165, FALSE, FALSE, "none", NoTakeProfits, 0, 1) }

\* ------------------------------------------------------------------------
\* State
\* ------------------------------------------------------------------------
VARIABLES
  strategyConfigs,      \* [pair -> StrategyConfig]
  initialCapital,
  wallet,               \* availableBalance, totalWalletBalance, totalUnrealizedProfit, positions
  openOrders,           \* pending orders of the run
  strategyReport,       \* running counters of the report
  tradesHistoric,       \* the trade history
  counters,             \* [pair -> Counter value]
  maxBalance, maxAbsoluteDrawdown, maxRelativeDrawdown,
  idCount,              \* identifiers drawn so far
  currentDate,          \* index of the tick of the time loop
  bar,                  \* the bar of the tick and the strategy's answers on it
  pc,                   \* position in the tick: "margin", "orders", "trade", "tick", "done"
  finalReport,          \* strategyReport after calculateStrategyStats
  fills, sumRealizedPnL, sumFees,   \* history variables
  realizedPnLs,         \* history: the realized PnLs of the run, in order
  extremes,             \* this.maxProfit, maxLoss, maxConsecutive...: the statistics fields
  replay,               \* a second run of the same configuration on the same bars
  results,              \* optimizer: the valid worker results, in the order reduced
  cursor,               \* optimizer: index of the next result to reduce
  bestResult, bestParameters,       \* optimizer: the best pair kept so far
  sweepPc,              \* optimizer: "idle", "batch", "await", "reduce", "done"
  maxWorkers,           \* worker pool: MAX_WORKERS
  batchSize,            \* worker pool: BATCH_SIZE
  combinations,         \* optimizer: the parameter combinations to test
  batchStart,           \* optimizer: index i of the batch loop
  tasks,                \* worker pool: the tasks started so far, one per combination
  activeWorkers,        \* worker pool: WorkerPool.activeWorkers
  processedCount,       \* optimizer: processedCount
  historicCandleData,   \* [timeframe -> number of candles loaded], <<>> before the load
  orderBars,            \* history: [order id -> the candle it was created on and the
                        \* candle it was last evaluated against]
  pairCandles,          \* window indexer: the close times of one (symbol, timeframe) array
  indexes,              \* window indexer: indexes[pair][interval] = { start, end }
  runSymbols,           \* symbol loop: the pairs of strategyConfigs, in forEach order
  evaluatedSymbols,     \* symbol loop: the pairs evaluated so far in the current tick
  raised,               \* symbol loop: the pairs whose evaluation threw an error
  runPc,                \* symbol loop: "idle", "loop", "rejected" or "finished"
  heap,                 \* several runs: [object -> value], the objects the instances created
  runs,                 \* several runs: [run -> its references, position and own fields]
  hyperParameters,      \* parameter grid: the entries of StrategyHyperParameters, in order
  parameterValueCache,  \* parameter grid: the memo of generateParameterValues
  generator,            \* parameter grid: the generator object of generateCombinations
  passes                \* history: the sequences yielded by the completed generators

vars == <<strategyConfigs, initialCapital, wallet, openOrders, strategyReport,
          tradesHistoric, counters, maxBalance, maxAbsoluteDrawdown, maxRelativeDrawdown,
          idCount, currentDate, bar, pc, finalReport, fills, sumRealizedPnL, sumFees,
          realizedPnLs, extremes, replay, results, cursor, bestResult, bestParameters, sweepPc,
          maxWorkers, batchSize, combinations, batchStart, tasks, activeWorkers,
          processedCount, historicCandleData, orderBars, pairCandles, indexes,
          runSymbols, evaluatedSymbols, raised, runPc, heap, runs,
          hyperParameters, parameterValueCache, generator, passes>>

sweepVars == <<results, cursor, bestResult, bestParameters, sweepPc>>

poolVars ==
  <<maxWorkers, batchSize, combinations, batchStart, tasks, activeWorkers, processedCount>>

clockVars == <<historicCandleData, orderBars>>

indexerVars == <<pairCandles, indexes>>

symbolVars == <<runSymbols, evaluatedSymbols, raised, runPc>>

instanceVars == <<heap, runs>>

gridVars == <<hyperParameters, parameterValueCache, generator, passes>>

unitVars == <<indexerVars, symbolVars, instanceVars, gridVars>>

\* let bestResult = null (optimize)
Null == [null |-> TRUE]

\* No sweep: the worker pool is not created
PoolIdle ==
  /\ maxWorkers = 1
  /\ batchSize = 1
  /\ combinations = <<>>
  /\ batchStart = 0
  /\ tasks = <<>>
  /\ activeWorkers = 0
  /\ processedCount = 0

SweepIdle ==
  /\ results = <<>>
  /\ cursor = 1
  /\ bestResult = Null
  /\ bestParameters = Null
  /\ sweepPc = "idle"
  /\ PoolIdle

ThePair == CHOOSE p \in Pairs : TRUE

IdentityIds == [i \in 1..NumIds |-> i]

\* The run as one record, for the pure steps above
BotOf(ids) ==
  [cfg |-> strategyConfigs, initialCapital |-> initialCapital, date |-> currentDate,
   wallet |-> wallet, openOrders |-> openOrders, strategyReport |-> strategyReport,
   tradesHistoric |-> tradesHistoric, counters |-> counters, maxBalance |-> maxBalance,
   maxAbsoluteDrawdown |-> maxAbsoluteDrawdown,
   maxRelativeDrawdown |-> maxRelativeDrawdown, idSource |-> ids, idCount |-> idCount,
   fills |-> <<>>, sumRealizedPnL |-> sumRealizedPnL, sumFees |-> sumFees,
   realizedPnLs |-> realizedPnLs, extremes |-> extremes]

Bot == BotOf(IdentityIds)

Install(b) ==
  /\ wallet' = b.wallet
  /\ openOrders' = b.openOrders
  /\ strategyReport' = b.strategyReport
  /\ tradesHistoric' = b.tradesHistoric
  /\ counters' = b.counters
  /\ maxBalance' = b.maxBalance
  /\ maxAbsoluteDrawdown' = b.maxAbsoluteDrawdown
  /\ maxRelativeDrawdown' = b.maxRelativeDrawdown
  /\ idCount' = b.idCount
  /\ fills' = b.fills
  /\ sumRealizedPnL' = b.sumRealizedPnL
  /\ sumFees' = b.sumFees
  /\ realizedPnLs' = b.realizedPnLs
  /\ extremes' = b.extremes

\* constructor + prepare() + prepareStrategyReport()
prepare(capital, configs) ==
  [cfg |-> configs, initialCapital |-> capital, date |-> 1,
   wallet |-> [availableBalance |-> capital, totalWalletBalance |-> capital,
               totalUnrealizedProfit |-> Zero,
               positions |-> [p \in Pairs |->
                  [leverage |-> configs[p].leverage, entryPrice |-> Zero,
                   margin |-> Zero, positionSide |-> "LONG", unrealizedProfit |-> Zero,
                   size |-> Zero]]],
   openOrders |-> <<>>,
   strategyReport |-> [totalFees |-> Zero, totalTrades |-> 0, totalLongTrades |-> 0,
                       totalShortTrades |-> 0, totalProfit |-> Zero, totalLoss |-> Zero,
                       longWinningTrade |-> 0, longLostTrade |-> 0,
                       shortWinningTrade |-> 0, shortLostTrade |-> 0,
                       maxConsecutiveProfit |-> Zero, maxConsecutiveLoss |-> Zero,
                       maxConsecutiveWinsCount |-> 0, maxConsecutiveLossesCount |-> 0],
   tradesHistoric |-> <<>>,
   counters |-> [p \in Pairs |-> CounterReset(configs[p].maxTradeDuration)],
   maxBalance |-> capital, maxAbsoluteDrawdown |-> Int2R(1),
   maxRelativeDrawdown |-> Int2R(1),
   idSource |-> IdentityIds, idCount |-> 0,
   fills |-> <<>>, sumRealizedPnL |-> Zero, sumFees |-> Zero, realizedPnLs |-> <<>>,
   extremes |-> [maxProfit |-> Zero, maxLoss |-> Zero, maxConsecutiveWinsCount |-> 0,
                 maxConsecutiveLossesCount |-> 0, maxConsecutiveProfitCount |-> Zero,
                 maxConsecutiveLossCount |-> Zero]]

InitEngine(setup, firstBar, phase) ==
    LET b == prepare(setup.initialCapital, [p \in Pairs |-> setup.config])
    IN /\ strategyConfigs = b.cfg
       /\ initialCapital = b.initialCapital
       /\ wallet = b.wallet
       /\ openOrders = b.openOrders
       /\ strategyReport = b.strategyReport
       /\ tradesHistoric = b.tradesHistoric
       /\ counters = b.counters
       /\ maxBalance = b.maxBalance
       /\ maxAbsoluteDrawdown = b.maxAbsoluteDrawdown
       /\ maxRelativeDrawdown = b.maxRelativeDrawdown
       /\ idCount = 0
       /\ currentDate = 1
       /\ bar = firstBar
       /\ pc = phase
       /\ finalReport = [finalized |-> FALSE]
       /\ fills = <<>>
       /\ sumRealizedPnL = Zero
       /\ sumFees = Zero
       /\ realizedPnLs = b.realizedPnLs
       /\ extremes = b.extremes
       /\ historicCandleData = <<>>
       /\ orderBars = <<>>
       /\ pairCandles = <<>>
       /\ indexes = [start |-> 0, end |-> 0]
       /\ runSymbols = <<>>
       /\ evaluatedSymbols = <<>>
       /\ raised = {}
       /\ runPc = "idle"
       /\ heap = <<>>
       /\ runs = <<>>
       /\ hyperParameters = <<>>
       /\ parameterValueCache = {}
       /\ generator = [phase |-> "idle", entries |-> <<>>, values |-> <<>>, i |-> 0,
                        yielded |-> <<>>]
       /\ passes = <<>>

InitRun == \E setup \in Setups, firstBar \in Bars : InitEngine(setup, firstBar, "margin")

NoReplay == [finalReport |-> [finalized |-> FALSE]]

Init == InitRun /\ replay = NoReplay /\ SweepIdle

\* The runs explored for the maximum trade duration: one, two and three evaluations
DurationSetups ==
  { [initialCapital |-> Int2R(1000),
     config |-> StrategyConfig(1, FALSE, TRUE, FALSE, maxTradeDuration, 0)] :
    maxTradeDuration \in 1..3 }

InitDuration ==
  /\ \E setup \in DurationSetups, firstBar \in Bars : InitEngine(setup, firstBar, "margin")
  /\ replay = NoReplay
  /\ SweepIdle

\* Bars on which riskManagement answers with a quantity of 2 and the exit strategy
\* with one target and a stop: the entry costs more than the smallest capital explored
OversizedBars ==
  { Bar(101, 99, 100, TRUE, FALSE, "none", OneTarget, 10, 2),
    Bar(101, 99, 100, FALSE, TRUE, "none", OneTarget, 10, 2) }

\* The runs whose first strategy evaluation asks for an oversized entry
InitEntries ==
  /\ \E setup \in Setups, firstBar \in OversizedBars : InitEngine(setup, firstBar, "margin")
  /\ replay = NoReplay
  /\ SweepIdle

\* run(), lines 409-415: the liquidation check of the tick
CheckPositionMargin ==
  /\ pc = "margin"
  /\ Install(checkPositionMargin(Bot, ThePair, bar.close))
  /\ pc' = "orders"
  /\ UNCHANGED <<sweepVars, poolVars, clockVars, unitVars>>
  /\ UNCHANGED <<strategyConfigs, initialCapital, currentDate, bar, finalReport, replay>>

\* run(), line 416: the matching pass of the tick
CheckOpenOrders ==
  /\ pc = "orders"
  /\ Install(checkOpenOrders(Bot, ThePair, bar))
  /\ pc' = "trade"
  /\ UNCHANGED <<sweepVars, poolVars, clockVars, unitVars>>
  /\ UNCHANGED <<strategyConfigs, initialCapital, currentDate, bar, finalReport, replay>>

\* run(), lines 419-431: the strategy evaluation of the tick, then updatePNL
Trade ==
  /\ pc = "trade"
  /\ Install(updatePNL(trade(Bot, ThePair, bar.close, bar), ThePair, bar.close))
  /\ pc' = "tick"
  /\ UNCHANGED <<sweepVars, poolVars, clockVars, unitVars>>
  /\ UNCHANGED <<strategyConfigs, initialCapital, currentDate, bar, finalReport, replay>>

\* run(), lines 435-461: the end of the tick; the clock advances to the next bar
EndTick ==
  /\ pc = "tick"
  /\ currentDate < MaxTicks
  /\ LET b1 == updateMaxDrawdownMaxBalance(Bot)
     IN Install([b1 EXCEPT !.wallet = updateTotalPNL(@)])
  /\ currentDate' = currentDate + 1
  /\ bar' \in Bars
  /\ pc' = "margin"
  /\ UNCHANGED <<sweepVars, poolVars, clockVars, unitVars>>
  /\ UNCHANGED <<strategyConfigs, initialCapital, finalReport, replay>>

\* run(), lines 435-467 on the last tick: the loop ends and the report is finalized
Finish ==
  /\ pc = "tick"
  /\ currentDate = MaxTicks
  /\ LET b1 == updateMaxDrawdownMaxBalance(Bot)
         b2 == [b1 EXCEPT !.wallet = updateTotalPNL(@)]
     IN /\ Install(b2)
        /\ finalReport' = [finalized |-> TRUE] @@ calculateStrategyStats(b2)
  /\ pc' = "done"
  /\ UNCHANGED <<sweepVars, poolVars, clockVars, unitVars>>
  /\ UNCHANGED <<strategyConfigs, initialCapital, currentDate, bar, replay>>

Next == CheckPositionMargin \/ CheckOpenOrders \/ Trade \/ EndTick \/ Finish

Spec == Init /\ [][Next]_vars

SpecDuration == InitDuration /\ [][Next]_vars

SpecEntries == InitEntries /\ [][Next]_vars

\* ------------------------------------------------------------------------
\* Two runs of the same configuration on the same bars
\* ------------------------------------------------------------------------
\* The identifiers Math.random() gives the second run: any values, k-th draw by k-th
\* draw, whereas the first run draws 1, 2, 3, ...
IdSources == [1..NumIds -> 1..NumIds]

\* The second run reads the candles the first run cached (candleDataCache), hence the
\* same bar, and its strategy callbacks answer the same on it
ReplayBot == [replay EXCEPT !.date = currentDate, !.fills = <<>>]

InitTwoRuns ==
  /\ InitRun
  /\ SweepIdle
  /\ \E ids \in IdSources :
       replay = [NoReplay @@ prepare(initialCapital, strategyConfigs)
                   EXCEPT !.idSource = ids]

BothCheckPositionMargin ==
  /\ pc = "margin"
  /\ Install(checkPositionMargin(Bot, ThePair, bar.close))
  /\ replay' = checkPositionMargin(ReplayBot, ThePair, bar.close)
  /\ pc' = "orders"
  /\ UNCHANGED <<sweepVars, poolVars, clockVars, unitVars>>
  /\ UNCHANGED <<strategyConfigs, initialCapital, currentDate, bar, finalReport>>

BothCheckOpenOrders ==
  /\ pc = "orders"
  /\ Install(checkOpenOrders(Bot, ThePair, bar))
  /\ replay' = checkOpenOrders(ReplayBot, ThePair, bar)
  /\ pc' = "trade"
  /\ UNCHANGED <<sweepVars, poolVars, clockVars, unitVars>>
  /\ UNCHANGED <<strategyConfigs, initialCapital, currentDate, bar, finalReport>>

BothTrade ==
  /\ pc = "trade"
  /\ Install(updatePNL(trade(Bot, ThePair, bar.close, bar), ThePair, bar.close))
  /\ replay' = updatePNL(trade(ReplayBot, ThePair, bar.close, bar), ThePair, bar.close)
  /\ pc' = "tick"
  /\ UNCHANGED <<sweepVars, poolVars, clockVars, unitVars>>
  /\ UNCHANGED <<strategyConfigs, initialCapital, currentDate, bar, finalReport>>

BothEndTick ==
  /\ pc = "tick"
  /\ currentDate < MaxTicks
  /\ LET b1 == updateMaxDrawdownMaxBalance(Bot)
     IN Install([b1 EXCEPT !.wallet = updateTotalPNL(@)])
  /\ LET r1 == updateMaxDrawdownMaxBalance(ReplayBot)
     IN replay' = [r1 EXCEPT !.wallet = updateTotalPNL(@)]
  /\ currentDate' = currentDate + 1
  /\ bar' \in Bars
  /\ pc' = "margin"
  /\ UNCHANGED <<sweepVars, poolVars, clockVars, unitVars>>
  /\ UNCHANGED <<strategyConfigs, initialCapital, finalReport>>

BothFinish ==
  /\ pc = "tick"
  /\ currentDate = MaxTicks
  /\ LET b1 == updateMaxDrawdownMaxBalance(Bot)
         b2 == [b1 EXCEPT !.wallet = updateTotalPNL(@)]
     IN /\ Install(b2)
        /\ finalReport' = [finalized |-> TRUE] @@ calculateStrategyStats(b2)
  /\ LET r1 == updateMaxDrawdownMaxBalance(ReplayBot)
         r2 == [r1 EXCEPT !.wallet = updateTotalPNL(@)]
     IN replay' = [r2 EXCEPT !.finalReport =
                     [finalized |-> TRUE] @@ calculateStrategyStats(r2)]
  /\ pc' = "done"
  /\ UNCHANGED <<sweepVars, poolVars, clockVars, unitVars>>
  /\ UNCHANGED <<strategyConfigs, initialCapital, currentDate, bar>>

NextTwoRuns ==
  BothCheckPositionMargin \/ BothCheckOpenOrders \/ BothTrade \/ BothEndTick
    \/ BothFinish

SpecTwoRuns == InitTwoRuns /\ [][NextTwoRuns]_vars


\* ------------------------------------------------------------------------
\* Parameter sweep: scoring and best-result reduction
\* ------------------------------------------------------------------------
MaxResults == 3

ROI(report) ==
  RDiv(RSub(report.finalCapital, report.initialCapital), report.initialCapital)

compareStrategyReport(a, b) ==
  LET roiA == ROI(a)
      roiB == ROI(b)
      drawdownA == RAbs(a.maxRelativeDrawdown)
      drawdownB == RAbs(b.maxRelativeDrawdown)
      scoreA == IF drawdownA = Zero THEN roiA ELSE RDiv(roiA, drawdownA)
      scoreB == IF drawdownB = Zero THEN roiB ELSE RDiv(roiB, drawdownB)
  IN IF RGt(roiA, RMul(roiB, <<3, 2>>)) THEN TRUE
     ELSE IF RGt(roiB, RMul(roiA, <<3, 2>>)) THEN FALSE
     ELSE RGt(scoreA, scoreB)

\* The callback of results.forEach in optimize: best is the pair kept so far
reduceResult(best, result) ==
  IF best.bestResult = Null
        \/ compareStrategyReport(result.strategyReport, best.bestResult)
  THEN [bestResult |-> result.strategyReport, bestParameters |-> result.parameters]
  ELSE best

\* A combination of hyper-parameters, an object as bestParameters is
Parameters(name) == [name |-> name]

\* What a worker posts for a parameter set: the parameters and the report of its
\* backtest, here with the return and the maximal relative drawdown in percent
WorkerResult(name, roiPercent, drawdownPercent) ==
  [parameters |-> Parameters(name),
   strategyReport |-> [initialCapital |-> Int2R(1000),
                       finalCapital |-> Int2R(1000 + 10 * roiPercent),
                       maxRelativeDrawdown |-> Int2R(-drawdownPercent)]]

WorkerResults ==
  { WorkerResult("p1", 20, 10), WorkerResult("p2", 25, 20),
    WorkerResult("p3", -10, 12), WorkerResult("p4", -12, 15),
    WorkerResult("p5", 10, 0), WorkerResult("p6", 40, 30) }

\* The valid results of a sweep, one per parameter set, in the order they are reduced
ResultSequences ==
  UNION { { r \in [1..n -> WorkerResults] :
              \A i, j \in 1..n : i # j => r[i].parameters # r[j].parameters } :
          n \in 0..MaxResults }

InitSweep ==
  /\ InitEngine(CHOOSE setup \in Setups : TRUE, CHOOSE b \in Bars : TRUE, "idle")
  /\ replay = NoReplay
  /\ results \in ResultSequences
  /\ cursor = 1
  /\ bestResult = Null
  /\ bestParameters = Null
  /\ sweepPc = "reduce"
  /\ PoolIdle

engineVars ==
  <<strategyConfigs, initialCapital, wallet, openOrders, strategyReport, tradesHistoric,
    counters, maxBalance, maxAbsoluteDrawdown, maxRelativeDrawdown, idCount, currentDate,
    bar, pc, finalReport, fills, sumRealizedPnL, sumFees, realizedPnLs, extremes, replay,
    historicCandleData,
    orderBars, unitVars>>

\* One iteration of results.forEach
ReduceResult ==
  /\ sweepPc = "reduce"
  /\ cursor <= Len(results)
  /\ LET best == reduceResult([bestResult |-> bestResult,
                               bestParameters |-> bestParameters], results[cursor])
     IN /\ bestResult' = best.bestResult
        /\ bestParameters' = best.bestParameters
  /\ cursor' = cursor + 1
  /\ UNCHANGED <<results, sweepPc>>
  /\ UNCHANGED <<engineVars, poolVars>>

\* return { bestResult, bestParameters, totalCombinationsCount }
SweepReturn ==
  /\ sweepPc = "reduce"
  /\ cursor > Len(results)
  /\ sweepPc' = "done"
  /\ UNCHANGED <<results, cursor, bestResult, bestParameters>>
  /\ UNCHANGED <<engineVars, poolVars>>

NextSweep == ReduceResult \/ SweepReturn

SpecSweep == InitSweep /\ [][NextSweep]_vars

\* ------------------------------------------------------------------------
\* Parameter sweep: the worker pool
\* ------------------------------------------------------------------------
MaxCombinations == 6

MIN_BATCH_SIZE == 5
MAX_BATCH_SIZE == 50

Min(a, b) == IF a < b THEN a ELSE b
Max(a, b) == IF a > b THEN a ELSE b

\* os.cpus().length of the machines considered
CpuCounts == {2, 8}

\* os.freemem() / os.totalmem() in percent
FreeMemPercents == {10}

\* Math.max(1, Math.min(cpuCount - 1, Math.floor(cpuCount * 0.8)))
MAX_WORKERS(cpuCount) == Max(1, Min(cpuCount - 1, (cpuCount * 8) \div 10))

\* Math.max(MIN_BATCH_SIZE, Math.min(Math.floor((freeMem / totalMem) * MAX_BATCH_SIZE),
\* MAX_BATCH_SIZE))
BATCH_SIZE(freeMemPercent) ==
  Max(MIN_BATCH_SIZE, Min((freeMemPercent * MAX_BATCH_SIZE) \div 100, MAX_BATCH_SIZE))

\* The parameter combinations generateCombinations yields, in its order
ParameterSets ==
  <<Parameters("p1"), Parameters("p2"), Parameters("p3"), Parameters("p4"),
    Parameters("p5"), Parameters("p6"), Parameters("p7")>>

\* The report a worker posts when its backtest of the parameter set completes
ResultOf(parameters) ==
  IF \E r \in WorkerResults : r.parameters = parameters
  THEN CHOOSE r \in WorkerResults : r.parameters = parameters
  ELSE WorkerResult(parameters.name, 5, 5)

\* What a worker may post to the main thread: its result, or { error: error.message }
\* with a message that may be empty
Messages(parameters) == { ResultOf(parameters), [error |-> "failed"], [error |-> ""] }

\* processTask: the promise, the timer and the worker thread of a task just created
newTask(parameters) ==
  [parameters |-> parameters, promise |-> "pending", value |-> Null, timeout |-> TRUE,
   worker |-> "running"]

\* resolve / reject of the promise of the task: the first settlement stays
resolve(task, result) ==
  IF task.promise = "pending"
  THEN [task EXCEPT !.promise = "resolved", !.value = result]
  ELSE task

\* The reason of a rejection is only logged: the model keeps that there is one
reject(task) ==
  IF task.promise = "pending"
  THEN [task EXCEPT !.promise = "rejected", !.value = [error |-> "rejected"]]
  ELSE task

clearTimeout(task) == [task EXCEPT !.timeout = FALSE]

\* worker.terminate(): the thread is stopped, its 'exit' event follows
terminate(task) ==
  IF task.worker = "running" THEN [task EXCEPT !.worker = "terminating"] ELSE task

\* setTimeout(() => { worker.terminate(); reject(new Error('Worker timeout')) }, 300000)
onTimeout(task) ==
  reject(terminate([task EXCEPT !.timeout = FALSE]))

\* worker.on('message', ...); an empty error text is falsy
onMessage(task, result) ==
  terminate(IF "error" \in DOMAIN result /\ result.error # ""
            THEN reject(clearTimeout(task))
            ELSE resolve(clearTimeout(task), result))

\* worker.on('error', ...): the thread threw; it stops and its 'exit' event follows
onError(task) == reject(clearTimeout(terminate(task)))

\* worker.on('exit', ...)
onExit(task, code) ==
  [(IF code # 0 THEN reject(clearTimeout(task))
    ELSE clearTimeout(task))
     EXCEPT !.worker = "exited"]

Settled(task) == task.promise # "pending"

\* The indexes of `tasks` of the batch that starts at batchStart
BatchOf(start) == (start + 1)..Min(start + batchSize, Len(combinations))

\* promises.map(p => p.catch(e => ({ error: e })))
caught(task) == IF task.promise = "rejected" THEN [error |-> task.value] ELSE task.value

\* A filter that keeps the error objects
isValidResult_KeepsErrors(r) == r # Null

\* results.filter(r => typeof r === 'object' && r !== null && !('error' in r))
isValidResult(r) == r # Null /\ ~("error" \in DOMAIN r)

\* The settled values of the batch in the order of its combinations, filtered
RECURSIVE validResults(_, _)
validResults(from, to) ==
  IF from > to THEN <<>>
  ELSE (IF isValidResult(caught(tasks[from])) THEN <<caught(tasks[from])>> ELSE <<>>)
         \o validResults(from + 1, to)

\* A wait that ends with the first promise settled
allSettled_FirstSettled(start) == \E t \in BatchOf(start) : Settled(tasks[t])

\* await Promise.all(...): every promise of the batch is settled
allSettled(start) == \A t \in BatchOf(start) : Settled(tasks[t])

InitPool ==
  /\ InitEngine(CHOOSE setup \in Setups : TRUE, CHOOSE b \in Bars : TRUE, "idle")
  /\ replay = NoReplay
  /\ results = <<>>
  /\ cursor = 1
  /\ bestResult = Null
  /\ bestParameters = Null
  /\ sweepPc = "batch"
  /\ \E cpuCount \in CpuCounts : maxWorkers = MAX_WORKERS(cpuCount)
  /\ \E freeMemPercent \in FreeMemPercents : batchSize = BATCH_SIZE(freeMemPercent)
  /\ \E n \in 1..MaxCombinations : combinations = SubSeq(ParameterSets, 1, n)
  /\ batchStart = 0
  /\ tasks = <<>>
  /\ activeWorkers = 0
  /\ processedCount = 0

poolFrame == <<engineVars, maxWorkers, batchSize, combinations>>

\* processBatch, lines 311-319: a worker is started for every combination of the batch
ProcessBatch ==
  /\ sweepPc = "batch"
  /\ tasks' = tasks \o [k \in 1..Cardinality(BatchOf(batchStart)) |->
                          newTask(combinations[batchStart + k])]
  /\ activeWorkers' = activeWorkers + Cardinality(BatchOf(batchStart))
  /\ sweepPc' = "await"
  /\ UNCHANGED <<poolFrame, batchStart, processedCount, results, cursor, bestResult,
                 bestParameters>>

taskFrame == <<poolFrame, batchStart, processedCount, results, cursor, bestResult,
               bestParameters, sweepPc>>

\* The worker posts a message; the main thread handles it
WorkerMessage(t) ==
  /\ tasks[t].worker = "running"
  /\ \E result \in Messages(tasks[t].parameters) :
       tasks' = [tasks EXCEPT ![t] = onMessage(@, result)]
  /\ activeWorkers' = activeWorkers - 1
  /\ UNCHANGED taskFrame

\* The worker throws outside its promise chain
WorkerError(t) ==
  /\ tasks[t].worker = "running"
  /\ tasks' = [tasks EXCEPT ![t] = onError(@)]
  /\ UNCHANGED <<taskFrame, activeWorkers>>

\* The worker calls process.exit(code) before posting anything
WorkerExit(t) ==
  /\ tasks[t].worker = "running"
  /\ \E code \in {0, 1} : tasks' = [tasks EXCEPT ![t] = onExit(@, code)]
  /\ UNCHANGED <<taskFrame, activeWorkers>>

\* The worker is still running when the timer of its task fires
WorkerTimeout(t) ==
  /\ tasks[t].timeout
  /\ tasks' = [tasks EXCEPT ![t] = onTimeout(@)]
  /\ UNCHANGED <<taskFrame, activeWorkers>>

\* The 'exit' event of a terminated worker (exit code 1)
WorkerTerminated(t) ==
  /\ tasks[t].worker = "terminating"
  /\ tasks' = [tasks EXCEPT ![t] = onExit(@, 1)]
  /\ UNCHANGED <<taskFrame, activeWorkers>>

\* processBatch, lines 321-333: Promise.all resolves, the valid results are returned
AwaitBatch ==
  /\ sweepPc = "await"
  /\ allSettled(batchStart)
  /\ results' = validResults(batchStart + 1, Min(batchStart + batchSize, Len(combinations)))
  /\ cursor' = 1
  /\ sweepPc' = "reduce"
  /\ UNCHANGED <<poolFrame, batchStart, processedCount, tasks, activeWorkers, bestResult,
                 bestParameters>>

\* optimize, lines 368-380: one iteration of results.forEach
ReduceBatchResult == ReduceResult

\* optimize, lines 382-397: the batch is counted and the loop goes on, or returns
NextBatch ==
  /\ sweepPc = "reduce"
  /\ cursor > Len(results)
  /\ processedCount' = processedCount + Cardinality(BatchOf(batchStart))
  /\ batchStart' = batchStart + batchSize
  /\ sweepPc' = IF batchStart + batchSize < Len(combinations) THEN "batch" ELSE "done"
  /\ UNCHANGED <<poolFrame, tasks, activeWorkers, results, cursor, bestResult,
                 bestParameters>>

NextPool ==
  \/ ProcessBatch
  \/ \E t \in DOMAIN tasks : WorkerMessage(t)
  \/ \E t \in DOMAIN tasks : WorkerError(t)
  \/ \E t \in DOMAIN tasks : WorkerExit(t)
  \/ \E t \in DOMAIN tasks : WorkerTimeout(t)
  \/ \E t \in DOMAIN tasks : WorkerTerminated(t)
  \/ AwaitBatch
  \/ ReduceBatchResult
  \/ NextBatch

\* The event loop runs every handler that is ready, timers included
SpecPool == InitPool /\ [][NextPool]_vars /\ WF_vars(NextPool)

\* ---------------------------------------------------------------------------
\* The time loop of run(): the load of the candles, the clock and the loop timeframe
\* ---------------------------------------------------------------------------
\* Timeframes are counted in steps of the clock, which advances by the smallest loop
\* timeframe of the strategy configurations.  The symbol traded has the loop timeframe
\* loopInterval; with loopInterval above 1 the run has a second symbol with the loop
\* timeframe 1 whose strategy gives no signal.
LoopIntervals == {1, 2}

\* The indicator timeframe of the symbol
IndicatorIntervals == {4}

\* A run with little capital and no limit on the duration of a trade
TightSetups ==
  { [initialCapital |-> Int2R(150),
     config |-> StrategyConfig(1, FALSE, TRUE, FALSE, 0, 0)] }

ClockSetups == Setups \cup TightSetups

\* new Set([loopInterval, ...indicatorIntervals])
requestedIntervals(strategyConfig) ==
  {strategyConfig.loopInterval} \cup strategyConfig.indicatorIntervals

\* What the loader may return: per requested timeframe an array of candles, here its
\* length, empty or covering the run
LoadedData(strategyConfig) == [requestedIntervals(strategyConfig) -> {0, MaxTicks}]

\* A check that stops the run only when no timeframe has candles
historyError_AllEmpty(historic) == \A interval \in DOMAIN historic : historic[interval] = 0

\* prepareCandleHistoric, lines 273-294: some array of the loaded data is empty
historyError(historic) == \E interval \in DOMAIN historic : historic[interval] = 0

\* The tick is aligned to the loop timeframe
dateMatchTimeFrame(date, loopInterval) == date % loopInterval = 0

\* updateCandleDataIndexes: the candle of the loop timeframe that ends the stream at the
\* date; it changes when a candle of that timeframe closes
candleIndex(date, loopInterval) == date \div loopInterval

CurrentCandle == candleIndex(currentDate, strategyConfigs[ThePair].loopInterval)

\* The creation and evaluation record of the pending orders: an order new in orders
\* was created on the candle idx, an order no longer in orders is forgotten, and with
\* evaluated the orders that stay were evaluated against the candle idx
trackOrders(orders, old, idx, evaluated) ==
  [id \in { orders[i].id : i \in DOMAIN orders } |->
     IF id \in DOMAIN old
     THEN (IF evaluated THEN [old[id] EXCEPT !.evaluated = idx] ELSE old[id])
     ELSE [created |-> idx, evaluated |-> -1]]

InitClock ==
  /\ \E setup \in ClockSetups, loopInterval \in LoopIntervals :
       InitEngine([setup EXCEPT !.config =
                     [loopInterval |-> loopInterval,
                      indicatorIntervals |-> IndicatorIntervals] @@ @],
                  CHOOSE firstBar \in Bars : TRUE, "load")
  /\ replay = NoReplay
  /\ SweepIdle

clockFrame ==
  <<strategyConfigs, initialCapital, finalReport, replay, sweepVars, poolVars, unitVars>>

\* run(), line 337: await this.prepareCandleHistoric(this.strategyConfigs)
PrepareCandleHistoric ==
  /\ pc = "load"
  /\ \E loaded \in LoadedData(strategyConfigs[ThePair]) :
       /\ historicCandleData' = loaded
       /\ IF historyError(loaded)
          THEN pc' = "exited" /\ bar' = bar
          ELSE pc' = "margin" /\ bar' \in Bars
  /\ UNCHANGED <<wallet, openOrders, strategyReport, tradesHistoric, counters, maxBalance,
                 maxAbsoluteDrawdown, maxRelativeDrawdown, idCount, currentDate, fills,
                 sumRealizedPnL, sumFees, realizedPnLs, extremes, orderBars, clockFrame>>

\* run(), lines 409-415, on every tick of the clock
ClockCheckPositionMargin ==
  /\ pc = "margin"
  /\ Install(checkPositionMargin(Bot, ThePair, bar.close))
  /\ orderBars' = trackOrders(openOrders', orderBars, CurrentCandle, FALSE)
  /\ pc' = "orders"
  /\ UNCHANGED <<currentDate, bar, historicCandleData, clockFrame>>

\* run(), line 416, on every tick of the clock
ClockCheckOpenOrders ==
  /\ pc = "orders"
  /\ Install(checkOpenOrders(Bot, ThePair, bar))
  /\ orderBars' = trackOrders(openOrders', orderBars, CurrentCandle, TRUE)
  /\ pc' = "trade"
  /\ UNCHANGED <<currentDate, bar, historicCandleData, clockFrame>>

\* run(), lines 419-431: trade and updatePNL on the ticks aligned to the loop timeframe
ClockTrade ==
  /\ pc = "trade"
  /\ Install(IF dateMatchTimeFrame(currentDate, strategyConfigs[ThePair].loopInterval)
             THEN updatePNL(trade(Bot, ThePair, bar.close, bar), ThePair, bar.close)
             ELSE Bot)
  /\ orderBars' = trackOrders(openOrders', orderBars, CurrentCandle, FALSE)
  /\ pc' = "tick"
  /\ UNCHANGED <<currentDate, bar, historicCandleData, clockFrame>>

\* run(), lines 435-461: the clock advances by the smallest timeframe; the stream of
\* the loop timeframe gets a new last candle when one has closed
ClockEndTick ==
  /\ pc = "tick"
  /\ currentDate < MaxTicks
  /\ LET b1 == updateMaxDrawdownMaxBalance(Bot)
     IN Install([b1 EXCEPT !.wallet = updateTotalPNL(@)])
  /\ currentDate' = currentDate + 1
  /\ \E nextBar \in Bars :
       bar' = IF candleIndex(currentDate + 1, strategyConfigs[ThePair].loopInterval)
                   # CurrentCandle
              THEN nextBar
              ELSE bar
  /\ pc' = "margin"
  /\ UNCHANGED <<historicCandleData, orderBars, clockFrame>>

\* run(), lines 435-467 on the last tick
ClockFinish ==
  /\ pc = "tick"
  /\ currentDate = MaxTicks
  /\ LET b1 == updateMaxDrawdownMaxBalance(Bot)
         b2 == [b1 EXCEPT !.wallet = updateTotalPNL(@)]
     IN /\ Install(b2)
        /\ finalReport' = [finalized |-> TRUE] @@ calculateStrategyStats(b2)
  /\ pc' = "done"
  /\ UNCHANGED <<strategyConfigs, initialCapital, currentDate, bar, replay, sweepVars,
                 poolVars, clockVars, unitVars>>

NextClock ==
  \/ PrepareCandleHistoric
  \/ ClockCheckPositionMargin
  \/ ClockCheckOpenOrders
  \/ ClockTrade
  \/ ClockEndTick
  \/ ClockFinish

SpecClock == InitClock /\ [][NextClock]_vars

\* ---------------------------------------------------------------------------
\* The window indexer: run() advances, for every (symbol, timeframe), the pair of
\* indexes that delimits the candles visible at the current date
\* ---------------------------------------------------------------------------

MaxBars == 5
MaxCloseTime == 6

\* import { MAX_LOADED_CANDLE_LENGTH_API } from '../init': the length of the window
MAX_LOADED_CANDLE_LENGTH_API == 2

\* historicCandleDataMultiTimeFrames[pair][timeFrame]: the close times of a time-ordered
\* candle array; index i of the code is position i + 1 of the sequence
RECURSIVE increasingFrom(_, _)
increasingFrom(first, length) ==
  IF length = 0 THEN {<<>>}
  ELSE UNION {{<<closeTime>> \o rest : rest \in increasingFrom(closeTime + 1, length - 1)} :
              closeTime \in first..MaxCloseTime}

CandleArrays == UNION {increasingFrom(1, length) : length \in 1..MaxBars}

closeTimeAt(candles, i) == candles[i + 1]

\* dayjs(pairCandles[i].closeTime).isAfter(currentDate) && i > 0
foundIndexEnd(candles, i, date) == closeTimeAt(candles, i) > date /\ i > 0

\* the for loop of updateCandleDataIndexes, from position i on
RECURSIVE indexLoop(_, _, _, _, _)
indexLoop(i, indexStart, indexEnd, candles, date) ==
  IF i >= Len(candles) THEN [start |-> indexStart, end |-> indexEnd]
  ELSE IF foundIndexEnd(candles, i, date) THEN [start |-> indexStart, end |-> i - 1]
  ELSE indexLoop(i + 1,
                 IF i - indexStart > MAX_LOADED_CANDLE_LENGTH_API
                 THEN indexStart + 1 ELSE indexStart,
                 indexEnd, candles, date)

updateCandleDataIndexes(indexStart, indexEnd, candles, date) ==
  indexLoop(indexEnd, indexStart, indexEnd, candles, date)

\* run(): indexes[pair][interval] = { start: 0, end: 0 }, before the candles are loaded
InitIndexer ==
  /\ InitEngine(CHOOSE setup \in Setups : TRUE, CHOOSE firstBar \in Bars : TRUE, "idle")
  /\ replay = NoReplay
  /\ SweepIdle

\* everything but the clock and the variables of the unit under study
unitFrame ==
  <<strategyConfigs, initialCapital, wallet, openOrders, strategyReport, tradesHistoric,
    counters, maxBalance, maxAbsoluteDrawdown, maxRelativeDrawdown, idCount, bar, pc,
    finalReport, fills, sumRealizedPnL, sumFees, realizedPnLs, extremes, replay, sweepVars,
    poolVars, clockVars>>

indexerFrame == <<unitFrame, symbolVars, instanceVars, gridVars>>

\* run(), line 337: prepareCandleHistoric fills historicCandleDataMultiTimeFrames, and the
\* loop starts at the start date
LoadPairCandles ==
  /\ pairCandles = <<>>
  /\ \E candles \in CandleArrays : pairCandles' = candles
  /\ \E startDate \in 1..MaxCloseTime : currentDate' = startDate
  /\ UNCHANGED <<indexes, indexerFrame>>

\* a clock that may also be set back
nextDates_Any(date) == 1..MaxCloseTime

\* run(), lines 459-461: the clock is advanced by the smallest loop timeframe, it never
\* goes back
nextDates(date) == date..MaxCloseTime

\* run(), lines 385-396: one pass of the time loop for one (symbol, timeframe)
UpdateCandleDataIndexes ==
  /\ pairCandles # <<>>
  /\ \E date \in nextDates(currentDate) :
       /\ currentDate' = date
       /\ indexes' = updateCandleDataIndexes(indexes.start, indexes.end, pairCandles, date)
  /\ UNCHANGED <<pairCandles, indexerFrame>>

NextIndexer ==
  \/ LoadPairCandles
  \/ UpdateCandleDataIndexes

SpecIndexer == InitIndexer /\ [][NextIndexer]_vars

\* ---------------------------------------------------------------------------
\* The symbol loop: run() evaluates the configured symbols one after the other in
\* every tick (strategyConfigs.forEach, lines 380-433)
\* ---------------------------------------------------------------------------

Symbols == {"BTCUSDT", "ETHUSDT", "BNBUSDT"}

\* the pairs of this.strategyConfigs: every arrangement of a non-empty set of symbols
RECURSIVE Orderings(_)
Orderings(S) ==
  IF S = {} THEN {<<>>}
  ELSE UNION {{<<symbol>> \o rest : rest \in Orderings(S \ {symbol})} : symbol \in S}

SymbolLists == UNION {Orderings(S) : S \in (SUBSET Symbols) \ {{}}}

symbolFrame == <<unitFrame, indexerVars, instanceVars, gridVars>>

\* run(), lines 329-376: the time loop starts at the start date
StartRun ==
  /\ runPc = "idle"
  /\ \E list \in SymbolLists : runSymbols' = list
  /\ runPc' = "loop"
  /\ UNCHANGED <<currentDate, evaluatedSymbols, raised, symbolFrame>>

\* the forEach callback of lines 380-433 returns normally for the next symbol
EvaluateSymbol ==
  /\ runPc = "loop"
  /\ Len(evaluatedSymbols) < Len(runSymbols)
  /\ evaluatedSymbols' = Append(evaluatedSymbols, runSymbols[Len(evaluatedSymbols) + 1])
  /\ UNCHANGED <<currentDate, runSymbols, raised, runPc, symbolFrame>>

\* the forEach callback throws (trade() calls the strategy callbacks without a try):
\* there is no catch in run(), so the error leaves forEach, the while loop and run(),
\* whose promise is rejected
EvaluateSymbolThrows ==
  /\ runPc = "loop"
  /\ Len(evaluatedSymbols) < Len(runSymbols)
  /\ raised' = raised \cup {runSymbols[Len(evaluatedSymbols) + 1]}
  /\ runPc' = "rejected"
  /\ UNCHANGED <<currentDate, runSymbols, evaluatedSymbols, symbolFrame>>

\* lines 436-461: the forEach is over, the clock advances
NextTick ==
  /\ runPc = "loop"
  /\ Len(evaluatedSymbols) = Len(runSymbols)
  /\ currentDate < MaxTicks
  /\ currentDate' = currentDate + 1
  /\ evaluatedSymbols' = <<>>
  /\ UNCHANGED <<runSymbols, raised, runPc, symbolFrame>>

\* lines 377 and 463-478: the end date is reached
FinishRun ==
  /\ runPc = "loop"
  /\ Len(evaluatedSymbols) = Len(runSymbols)
  /\ currentDate = MaxTicks
  /\ runPc' = "finished"
  /\ UNCHANGED <<currentDate, runSymbols, evaluatedSymbols, raised, symbolFrame>>

InitSymbols ==
  /\ InitEngine(CHOOSE setup \in Setups : TRUE, CHOOSE firstBar \in Bars : TRUE, "idle")
  /\ replay = NoReplay
  /\ SweepIdle

NextSymbols ==
  \/ StartRun
  \/ EvaluateSymbol
  \/ EvaluateSymbolThrows
  \/ NextTick
  \/ FinishRun

SpecSymbols == InitSymbols /\ [][NextSymbols]_vars

\* ---------------------------------------------------------------------------
\* Several runs side by side: every run is an instance of BasicBackTestBot whose
\* fields refer to the objects its constructor and prepare() created
\* ---------------------------------------------------------------------------

InterleaveTicks == 2

RunIds == {1, 2}

\* the mutable stores of an instance: this.wallet, this.openOrders, this.counters,
\* this.tradesHistoric, this.strategyReport
Stores == {"wallet", "openOrders", "counters", "tradesHistoric", "strategyReport"}

\* an instance whose trade history is the array of the first instance
newBot_SharedHistoric(r) ==
  [s \in Stores |-> IF s = "tradesHistoric" THEN <<1, s>> ELSE <<r, s>>]

\* new BasicBackTestBot(...) and prepare(): the field initialisers and prepare() create
\* the objects of the instance, one of each per instance
newBot(r) == [s \in Stores |-> <<r, s>>]

\* the fields of a bot that are values of the instance itself
ownFields(b) == [f \in (DOMAIN b) \ Stores |-> b[f]]

\* the bot a run sees through its references
botView(h, run) ==
  [f \in (DOMAIN run.own) \cup Stores |->
     IF f \in Stores THEN h[run.refs[f]] ELSE IF f = "fills" THEN <<>> ELSE run.own[f]]

\* the heap after a run has written the stores of b through its references
writeStores(h, run, b) ==
  [o \in DOMAIN h |->
     IF \E s \in Stores : run.refs[s] = o
     THEN b[CHOOSE s \in Stores : run.refs[s] = o]
     ELSE h[o]]

InitInterleaved ==
  /\ InitEngine(CHOOSE setup \in Setups : TRUE, CHOOSE firstBar \in Bars : TRUE, "idle")
  /\ replay = NoReplay
  /\ SweepIdle

instanceFrame == <<currentDate, unitFrame, indexerVars, symbolVars, gridVars>>

\* the optimizer starts the runs of a batch with the same configuration and capital
StartRuns ==
  /\ runs = <<>>
  /\ \E setup \in Setups, firstBar \in Bars :
       LET b == prepare(setup.initialCapital, [p \in Pairs |-> setup.config])
       IN /\ runs' = [r \in RunIds |->
                        [refs |-> newBot(r), pc |-> "margin", bar |-> firstBar,
                         finalReport |-> [finalized |-> FALSE], own |-> ownFields(b)]]
          /\ heap' = [o \in UNION {{newBot(r)[s] : s \in Stores} : r \in RunIds} |->
                        b[o[2]]]
  /\ UNCHANGED instanceFrame

\* one step of run r: the bot b it computed is written back through its references
stepRun(r, b, nextPc, nextBar, report) ==
  /\ heap' = writeStores(heap, runs[r], b)
  /\ runs' = [runs EXCEPT ![r] = [refs |-> @.refs, pc |-> nextPc, bar |-> nextBar,
                                  finalReport |-> report, own |-> ownFields(b)]]
  /\ UNCHANGED instanceFrame

RunCheckPositionMargin(r) ==
  /\ runs[r].pc = "margin"
  /\ stepRun(r, checkPositionMargin(botView(heap, runs[r]), ThePair, runs[r].bar.close),
             "orders", runs[r].bar, runs[r].finalReport)

RunCheckOpenOrders(r) ==
  /\ runs[r].pc = "orders"
  /\ stepRun(r, checkOpenOrders(botView(heap, runs[r]), ThePair, runs[r].bar),
             "trade", runs[r].bar, runs[r].finalReport)

RunTrade(r) ==
  /\ runs[r].pc = "trade"
  /\ stepRun(r, updatePNL(trade(botView(heap, runs[r]), ThePair, runs[r].bar.close,
                                runs[r].bar), ThePair, runs[r].bar.close),
             "tick", runs[r].bar, runs[r].finalReport)

endOfTick(b) == [updateMaxDrawdownMaxBalance(b) EXCEPT !.wallet = updateTotalPNL(@)]

RunEndTick(r) ==
  /\ runs[r].pc = "tick"
  /\ runs[r].own.date < InterleaveTicks
  /\ \E nextBar \in Bars :
       stepRun(r, [endOfTick(botView(heap, runs[r])) EXCEPT !.date = @ + 1],
               "margin", nextBar, runs[r].finalReport)

RunFinish(r) ==
  /\ runs[r].pc = "tick"
  /\ runs[r].own.date = InterleaveTicks
  /\ stepRun(r, endOfTick(botView(heap, runs[r])), "done", runs[r].bar,
             [finalized |-> TRUE] @@ calculateStrategyStats(endOfTick(botView(heap, runs[r]))))

NextInterleaved ==
  \/ StartRuns
  \/ \E r \in DOMAIN runs : RunCheckPositionMargin(r)
  \/ \E r \in DOMAIN runs : RunCheckOpenOrders(r)
  \/ \E r \in DOMAIN runs : RunTrade(r)
  \/ \E r \in DOMAIN runs : RunEndTick(r)
  \/ \E r \in DOMAIN runs : RunFinish(r)

SpecInterleaved == InitInterleaved /\ [][NextInterleaved]_vars

\* ---------------------------------------------------------------------------
\* The parameter grid: generateParameterValues and generateCombinations
\* ---------------------------------------------------------------------------

MaxPasses == 2

\* a hyperparameter value with its typeof; strings and booleans are numbered
Number(n) == [type |-> "number", value |-> n]
String(k) == [type |-> "string", value |-> k]
Boolean(k) == [type |-> "boolean", value |-> k]

\* { value, optimization, optimizationStep } of one hyperparameter; step 0 stands for
\* an absent optimizationStep
HyperParameter(optimization, step) == [optimization |-> optimization, step |-> step]

\* the optimization declarations explored: none, numeric ranges with and without a
\* step (one that does not divide the range, one that is empty), explicit value sets
OptimizationConfigs ==
  { HyperParameter(<<>>, 0),
    HyperParameter(<<Number(1), Number(3)>>, 0),
    HyperParameter(<<Number(1), Number(4)>>, 2),
    HyperParameter(<<Number(3), Number(1)>>, 1),
    HyperParameter(<<Number(7)>>, 0),
    HyperParameter(<<Number(5), Number(2), Number(9)>>, 1),
    HyperParameter(<<String(1), String(2)>>, 0),
    HyperParameter(<<Boolean(1), Boolean(0)>>, 0) }

ParameterNames == <<"period", "threshold", "mode">>

\* StrategyHyperParameters: every parameter with one of the declarations
HyperParameterTables ==
  { [j \in 1..Len(ParameterNames) |-> [name |-> ParameterNames[j], config |-> table[j]]] :
    table \in [1..Len(ParameterNames) -> OptimizationConfigs] }

\* lines 128-144: parametersToOptimize holds the entries with a non-empty optimization
parametersToOptimize(table) ==
  SelectSeq(table, LAMBDA entry : Len(entry.config.optimization) > 0)

\* the numeric range of generateParameterValues, lines 158-179
rangeValues(min, max, stepSize) ==
  LET numSteps == ((max - min) \div stepSize) + 1
      values == [k \in 1..Max(numSteps, 0) |-> Number(Min(min + (k - 1) * stepSize, max))]
  IN IF values # <<>> /\ values[Len(values)].value < max
     THEN Append(values, Number(max))
     ELSE values

\* generateParameterValues without the memo, lines 153-185
computeParameterValues(config) ==
  LET optimization == config.optimization
  IN IF Len(optimization) = 0 THEN <<>>
     ELSE IF /\ Len(optimization) = 2
             /\ optimization[1].type = "number"
             /\ optimization[2].type = "number"
     THEN rangeValues(optimization[1].value, optimization[2].value,
                      IF config.step = 0 THEN 1 ELSE config.step)
     ELSE optimization

\* generateParameterValues, lines 148-190: the memo is read first and filled otherwise
\* (an empty optimization returns before the memo is filled)
generateParameterValues(cache, config) ==
  IF \E entry \in cache : entry.key = config
  THEN (CHOOSE entry \in cache : entry.key = config).result
  ELSE computeParameterValues(config)

memoized(cache, config) ==
  IF (\E entry \in cache : entry.key = config) \/ Len(config.optimization) = 0
  THEN cache
  ELSE cache \cup {[key |-> config, result |-> computeParameterValues(config)]}

\* the memo after the values of entries[1..j] have been generated
RECURSIVE cacheAfter(_, _, _)
cacheAfter(cache, entries, j) ==
  IF j = 0 THEN cache
  ELSE memoized(cacheAfter(cache, entries, j - 1), entries[j].config)

\* values.reduce((acc, arr) => acc * arr.length, 1)
RECURSIVE totalCombinations(_)
totalCombinations(values) ==
  IF values = <<>> THEN 1 ELSE Len(Head(values)) * totalCombinations(Tail(values))

\* the decoding that forgets to divide: every parameter gets the index i % size
indexOf_NoCarry(values, j, i) == i % Len(values[j])

\* the index of parameter j in combination i, lines 213-218: temp is divided by the
\* sizes of the parameters after j, then taken modulo the size of j
RECURSIVE indexOf(_, _, _)
indexOf(values, j, i) ==
  IF j = Len(values) THEN i % Len(values[j])
  ELSE indexOf(SubSeq(values, 1, Len(values) - 1), j, i \div Len(values[Len(values)]))

\* combination[entries[j][0]] = { value: values[j][index] }
combinationAt(entries, values, i) ==
  [name \in {entries[j].name : j \in 1..Len(entries)} |->
     LET j == CHOOSE k \in 1..Len(entries) : entries[k].name = name
     IN [value |-> values[j][indexOf(values, j, i) + 1]]]

InitGrid ==
  /\ InitEngine(CHOOSE setup \in Setups : TRUE, CHOOSE firstBar \in Bars : TRUE, "idle")
  /\ replay = NoReplay
  /\ SweepIdle

gridFrame == <<currentDate, unitFrame, indexerVars, symbolVars, instanceVars>>

\* the module reads StrategyHyperParameters
LoadHyperParameters ==
  /\ hyperParameters = <<>>
  /\ hyperParameters' \in HyperParameterTables
  /\ UNCHANGED <<parameterValueCache, generator, passes, gridFrame>>

\* generateCombinations(parametersToOptimize) up to the loop: the value lists are
\* generated, through the memo
StartGenerator ==
  /\ hyperParameters # <<>>
  /\ generator.phase \in {"idle", "returned"}
  /\ Len(passes) < MaxPasses
  /\ LET entries == parametersToOptimize(hyperParameters)
     IN /\ generator' =
             [phase |-> "running", entries |-> entries,
              values |-> [j \in 1..Len(entries) |->
                            generateParameterValues(
                              cacheAfter(parameterValueCache, entries, j - 1),
                              entries[j].config)],
              i |-> 0, yielded |-> <<>>]
        /\ parameterValueCache' = cacheAfter(parameterValueCache, entries, Len(entries))
  /\ UNCHANGED <<hyperParameters, passes, gridFrame>>

\* one iteration of the for loop, lines 211-221: the consumer takes the next value
Yield ==
  /\ generator.phase = "running"
  /\ generator.i < totalCombinations(generator.values)
  /\ generator' = [generator EXCEPT
                     !.yielded = Append(@, combinationAt(generator.entries,
                                                         generator.values, generator.i)),
                     !.i = @ + 1]
  /\ UNCHANGED <<hyperParameters, parameterValueCache, passes, gridFrame>>

\* the loop is over: the generator returns
Return ==
  /\ generator.phase = "running"
  /\ generator.i >= totalCombinations(generator.values)
  /\ generator' = [generator EXCEPT !.phase = "returned"]
  /\ passes' = Append(passes, generator.yielded)
  /\ UNCHANGED <<hyperParameters, parameterValueCache, gridFrame>>

NextGrid ==
  \/ LoadHyperParameters
  \/ StartGenerator
  \/ Yield
  \/ Return

\* Array.from(generateCombinations(...)) drains the generator in a loop
SpecGrid == InitGrid /\ [][NextGrid]_vars /\ WF_vars(NextGrid)

\* ---------------------------------------------------------------------------
\* The tick of one symbol in full: index update, history check, liquidation check,
\* order matching, strategy evaluation (run(), lines 380-433)
\* ---------------------------------------------------------------------------

\* the candles of the loop timeframe the loader returned: candle k closes at
\* k * loopInterval; the data starts before the run or with it, and it covers the run
\* or ends after two candles
ClockCandleArrays(loopInterval) ==
  { [k \in 1..(last - first + 1) |-> (first + k - 1) * loopInterval] :
    first \in {-(MAX_LOADED_CANDLE_LENGTH_API + 1), 1}, last \in {2, MaxTicks} }

\* generateCandleDataFromIndexes, lines 484-506: data.slice(start, end).length
streamLength(pairIndexes) == Max(pairIndexes.end - pairIndexes.start, 0)

\* a history check that always passes
enoughHistory_Always(pairIndexes) == TRUE

\* run(), line 403: candlesStream.length >= MAX_LOADED_CANDLE_LENGTH_API
enoughHistory(pairIndexes) == streamLength(pairIndexes) >= MAX_LOADED_CANDLE_LENGTH_API

protocolFrame ==
  <<strategyConfigs, initialCapital, finalReport, replay, sweepVars, poolVars, symbolVars,
    instanceVars, gridVars>>

ledgerVars ==
  <<wallet, openOrders, strategyReport, tradesHistoric, counters, maxBalance,
    maxAbsoluteDrawdown, maxRelativeDrawdown, idCount, fills, sumRealizedPnL, sumFees,
    realizedPnLs, extremes>>

\* run(), line 337: the candles of every requested timeframe are loaded
LoadCandles ==
  /\ pc = "load"
  /\ historicCandleData' = [interval \in requestedIntervals(strategyConfigs[ThePair]) |->
                              MaxTicks]
  /\ pairCandles' \in ClockCandleArrays(strategyConfigs[ThePair].loopInterval)
  /\ bar' \in Bars
  /\ pc' = "index"
  /\ UNCHANGED <<ledgerVars, currentDate, orderBars, indexes, protocolFrame>>

\* run(), lines 385-403: the indexes of the loop timeframe are advanced to the date and
\* the stream is cut; a stream that is too short skips the symbol for this tick
UpdateIndexes ==
  /\ pc = "index"
  /\ indexes' = updateCandleDataIndexes(indexes.start, indexes.end, pairCandles, currentDate)
  /\ pc' = IF enoughHistory(indexes') THEN "margin" ELSE "tick"
  /\ UNCHANGED <<ledgerVars, currentDate, bar, historicCandleData, orderBars, pairCandles,
                 protocolFrame>>

\* run(), lines 435-461: the end of the tick, the clock advances
ProtocolEndTick ==
  /\ pc = "tick"
  /\ currentDate < MaxTicks
  /\ LET b1 == updateMaxDrawdownMaxBalance(Bot)
     IN Install([b1 EXCEPT !.wallet = updateTotalPNL(@)])
  /\ currentDate' = currentDate + 1
  /\ \E nextBar \in Bars :
       bar' = IF candleIndex(currentDate + 1, strategyConfigs[ThePair].loopInterval)
                   # CurrentCandle
              THEN nextBar
              ELSE bar
  /\ pc' = "index"
  /\ UNCHANGED <<historicCandleData, orderBars, pairCandles, indexes, protocolFrame>>

NextProtocol ==
  \/ LoadCandles
  \/ UpdateIndexes
  \/ ClockCheckPositionMargin
  \/ ClockCheckOpenOrders
  \/ ClockTrade
  \/ ProtocolEndTick
  \/ ClockFinish

SpecProtocol == InitClock /\ [][NextProtocol]_vars

\* ---------------------------------------------------------------------------
\* Properties of the ledger
\* ---------------------------------------------------------------------------

FillIdx == 1..Len(fills)

ThePosition == wallet.positions[ThePair]

SideSign(position) == IF position.positionSide = "LONG" THEN Int2R(1) ELSE Int2R(-1)

\* C1: balance conservation. At every run point the total wallet balance equals the
\* initial capital plus the realized PnL of all closes so far minus the fees of all
\* fills so far.
C1_BalanceConservation ==
  wallet.totalWalletBalance = RSub(RAdd(initialCapital, sumRealizedPnL), sumFees)

\* C2: at every run point the available balance does not exceed the total wallet
\* balance.
C2_AvailableWithinTotal ==
  RLe(wallet.availableBalance, wallet.totalWalletBalance)

\* A market order that brought the position of its pair from non-zero to exactly zero
IsFullMarketClose(f) ==
  /\ f.op = "CLOSE"
  /\ f.before.size # Zero
  /\ f.after.size = Zero

\* C3: a market order that closes a position in full at price p realizes
\* sign(side) * |size| * (p - entry) and credits the available balance with the
\* released margin plus that PnL minus the closing fee.
C3_FullCloseCreditsMarginAndPnL ==
  \A i \in FillIdx :
    IsFullMarketClose(fills[i]) =>
      LET f == fills[i]
          realized == RMul(SideSign(f.before),
                           RMul(RAbs(f.before.size), RSub(f.price, f.before.entryPrice)))
      IN /\ f.pnl = realized
         /\ f.availableAfter =
              RSub(RAdd(f.availableBefore, RAdd(f.before.margin, realized)), f.fee)

\* The size a market order asks for, on the quantity grid of its pair
RequestedSize(f) == decimalRound(f.quantity, strategyConfigs[f.pair].quantityPrecision)

\* The margin and the taker fee of a market order of the given size at its price
MarketMargin(f, size) == RDiv(RMul(f.price, RAbs(size)), Int2R(f.before.leverage))

MarketFee(f, size) == RMul(RMul(f.price, RAbs(size)), Percent(TAKER_FEES))

\* A market order placed on a flat position whose margin and fee the available
\* balance covers
IsFundedOpenFromFlat(f) ==
  /\ f.type = "MARKET"
  /\ f.op \in {"OPEN", "REJECTED"}
  /\ f.before.size = Zero
  /\ RGe(f.availableBefore,
         RAdd(MarketMargin(f, RequestedSize(f)), MarketFee(f, RequestedSize(f))))

\* C4: a market order of quantity q at price p on a flat position with leverage L and
\* sufficient available balance is applied; the margin is p*|q|/L, the available
\* balance decreases by exactly margin plus taker fee and the total balance by exactly
\* the fee.
C4_MarketOpenFromFlat ==
  \A i \in FillIdx :
    IsFundedOpenFromFlat(fills[i]) =>
      LET f == fills[i]
          q == RequestedSize(f)
          margin == MarketMargin(f, q)
          fee == MarketFee(f, q)
      IN /\ f.op = "OPEN"
         /\ f.after.size = q
         /\ f.after.entryPrice = f.price
         /\ f.after.margin = margin
         /\ f.fee = fee
         /\ f.availableAfter = RSub(f.availableBefore, RAdd(margin, fee))
         /\ f.totalAfter = RSub(f.totalBefore, fee)


\* A funded market order has opened a position from flat with a leverage above 1
C4_Witness ==
  \E i \in FillIdx :
    /\ IsFundedOpenFromFlat(fills[i])
    /\ fills[i].op = "OPEN"
    /\ fills[i].before.leverage > 1
    /\ fills[i].after.size # Zero

\* A fill after which the position is larger than before it, or on the other side
OpensOrAdds(f) ==
  /\ f.op # "REJECTED"
  /\ f.after.size # Zero
  /\ \/ RSign(f.after.size) # RSign(f.before.size)
     \/ RGt(RAbs(f.after.size), RAbs(f.before.size))

\* C5: after any operation that opens or adds to a position, the margin of the
\* position equals |size * entryPrice| / leverage, whatever the market price is.
C5_MarginAfterOpenOrAdd ==
  \A i \in FillIdx :
    OpensOrAdds(fills[i]) =>
      LET after == fills[i].after
      IN after.margin =
           RDiv(RAbs(RMul(after.size, after.entryPrice)), Int2R(after.leverage))

\* The pending orders of the symbol
PendingOrders == SelectSeq(openOrders, LAMBDA o : o.pair = ThePair)

\* C6: within one matching pass, once a fill has brought the position size to exactly
\* zero, no further order of the pass is filled, and the pass leaves no pending order
\* for the symbol.
C6_NoFillAfterClose ==
  pc = "trade" =>
    \A i \in FillIdx :
      fills[i].after.size = Zero =>
         /\ \A j \in FillIdx : j > i => fills[j].id = fills[i].id
         /\ PendingOrders = <<>>

\* The liquidation condition of the position at the given price
BelowMaintenance(position, currentPrice) ==
  /\ position.size # Zero
  /\ RLe(RAdd(position.margin, getPositionPNL(position, currentPrice)),
         RMul(RAbs(RMul(position.size, currentPrice)), <<5, 1000>>))

\* C7: the liquidation check closes the position and cancels the pending orders of the
\* symbol exactly when the position is non-flat and margin + unrealizedPnL <=
\* |size * currentPrice| * 0.005; otherwise it leaves the position as it is.
C7_LiquidationBoundary ==
  [][pc = "margin" =>
       IF BelowMaintenance(ThePosition, bar.close)
       THEN /\ wallet'.positions[ThePair].size = Zero
            /\ SelectSeq(openOrders', LAMBDA o : o.pair = ThePair) = <<>>
       ELSE /\ wallet'.positions[ThePair] = ThePosition
            /\ openOrders' = openOrders]_vars

ExceedsByHalf(a, b) == RGt(ROI(a), RAdd(ROI(b), RDiv(RAbs(ROI(b)), Int2R(2))))

RiskAdjusted(a) == RDiv(ROI(a), RAbs(a.maxRelativeDrawdown))

\* The result being reduced replaces the best pair kept so far
Replaces == bestParameters' = results[cursor].parameters

ScenarioC == { WorkerResult("p1", 20, 10), WorkerResult("p2", 25, 20) }

\* C9: compareStrategyReport(a, b) prefers a outright when ROI(a) exceeds ROI(b) by
\* more than 50%, prefers b outright in the symmetric case, and otherwise prefers the
\* report with the higher ROI / |relativeDrawdown|; of the candidates ROI 20% /
\* drawdown 10% and ROI 25% / drawdown 20% the sweep keeps the first, in either order.
C9_ScoringRule ==
  /\ [][(sweepPc = "reduce" /\ cursor <= Len(results) /\ bestResult # Null) =>
          LET a == results[cursor].strategyReport
              b == bestResult
          IN /\ ExceedsByHalf(a, b) => Replaces
             /\ ExceedsByHalf(b, a) => ~Replaces
             /\ (/\ ~ExceedsByHalf(a, b)
                 /\ ~ExceedsByHalf(b, a)
                 /\ a.maxRelativeDrawdown # Zero
                 /\ b.maxRelativeDrawdown # Zero)
                  => (Replaces <=> RGt(RiskAdjusted(a), RiskAdjusted(b)))]_vars
  /\ []((sweepPc = "done" /\ {results[i] : i \in 1..Len(results)} = ScenarioC)
          => bestParameters = Parameters("p1"))

\* The arrangements of n results
Arrangements(n) == { f \in [1..n -> 1..n] : \A i, j \in 1..n : i # j => f[i] # f[j] }

\* The best pair after reducing the first k results of the sequence, from none
RECURSIVE reduceAll(_, _)
reduceAll(seq, k) ==
  IF k = 0 THEN [bestResult |-> Null, bestParameters |-> Null]
  ELSE reduceResult(reduceAll(seq, k - 1), seq[k])

\* C10: for any set of valid worker results, results with negative ROI included, the
\* best (parameters, report) pair kept at the end of the sweep is the same for every
\* order in which the results are reduced.
C10_OrderIndependentReduction ==
  sweepPc = "done" =>
    \A f \in Arrangements(Len(results)) :
      reduceAll([i \in 1..Len(results) |-> results[f[i]]], Len(results))
        = [bestResult |-> bestResult, bestParameters |-> bestParameters]

\* ---------------------------------------------------------------------------
\* Properties of the worker pool
\* ---------------------------------------------------------------------------

RunningWorkers == { t \in DOMAIN tasks : tasks[t].worker = "running" }

\* C11: at no time during the sweep are more worker threads running concurrently than
\* the pool size MAX_WORKERS derived from the CPU count.
C11_WorkerPoolBound == Cardinality(RunningWorkers) <= maxWorkers

\* The tasks whose worker posted the report of its backtest
Succeeded(S) ==
  { t \in S : /\ tasks[t].promise = "resolved"
              /\ tasks[t].value = ResultOf(tasks[t].parameters) }

\* The tasks that settled without a report: the worker threw, posted an error, timed
\* out or exited with a non-zero code
Failed(S) == { t \in S : Settled(tasks[t]) } \ Succeeded(S)

\* The reports of the succeeded tasks among the first n, in the order of the tasks
RECURSIVE reportsUpTo(_)
reportsUpTo(n) ==
  IF n = 0 THEN <<>>
  ELSE reportsUpTo(n - 1)
         \o (IF n \in Succeeded({n}) THEN <<ResultOf(tasks[n].parameters)>> ELSE <<>>)

\* C12: a worker of a batch that throws, posts an error, times out or exits non-zero
\* contributes no result to the reduction, the valid result of every sibling worker of
\* the batch is reduced, and the batches after it are run.
C12_FailureIsolation ==
  /\ sweepPc = "reduce" =>
       /\ Len(results) = Cardinality(Succeeded(BatchOf(batchStart)))
       /\ \A t \in Succeeded(BatchOf(batchStart)) :
            \E i \in 1..Len(results) : results[i] = ResultOf(tasks[t].parameters)
       /\ \A t \in Failed(BatchOf(batchStart)) :
            \A i \in 1..Len(results) : results[i].parameters # tasks[t].parameters
  /\ sweepPc = "done" =>
       /\ Len(tasks) = Len(combinations)
       /\ processedCount = Len(combinations)
       /\ LET reports == reportsUpTo(Len(tasks))
          IN reduceAll(reports, Len(reports))
               = [bestResult |-> bestResult, bestParameters |-> bestParameters]

\* The sweep returned; a worker of its first batch failed next to a sibling that posted
\* its report, and a second batch was run
C12_Witness ==
  /\ sweepPc = "done"
  /\ Len(tasks) > batchSize
  /\ Failed(1..batchSize) # {}
  /\ Succeeded(1..batchSize) # {}
  /\ Succeeded((batchSize + 1)..Len(tasks)) # {}

\* C13: every worker task started by the pool eventually settles, whatever the worker
\* does, hence every batch completes and the sweep terminates.
C13_SweepTerminates ==
  <>(sweepPc = "done" /\ \A t \in DOMAIN tasks : Settled(tasks[t]))

\* The batch of the t-th task
BatchIndex(t) == (t - 1) \div batchSize

\* C14: no worker of batch k+1 is started before every task of batch k has settled,
\* while the tasks of one batch are all started in one go.
C14_BatchesSequential ==
  /\ [](\A t, u \in DOMAIN tasks :
          BatchIndex(t) < BatchIndex(u) => Settled(tasks[t]))
  /\ [][Len(tasks') > Len(tasks) =>
          /\ Len(tasks') = Min(batchStart + batchSize, Len(combinations))
          /\ \A t \in (Len(tasks) + 1)..Len(tasks') : tasks'[t] = newTask(combinations[t])]_vars

\* A task of the second batch is running while the first batch has settled
C14_Witness ==
  \E t \in DOMAIN tasks : BatchIndex(t) = 1 /\ tasks[t].worker = "running"

\* ---------------------------------------------------------------------------
\* Properties of the orders
\* ---------------------------------------------------------------------------

\* A market order opening or adding to the position that the available balance does
\* not cover
IsUnderfundedOpen(f) ==
  /\ f.type = "MARKET"
  /\ f.op \in {"OPEN", "REJECTED"}
  /\ RLt(f.availableBefore,
         RAdd(MarketMargin(f, f.quantity), MarketFee(f, f.quantity)))

\* C16: a market open/add requested with availableBalance < requiredMargin + fee is
\* not applied: the position, both balances, the trade counters and the trade history
\* are unchanged, and the simulation goes on to the end of the tick.
C16_InsufficientBalanceRejected ==
  \A i \in FillIdx :
    IsUnderfundedOpen(fills[i]) =>
      LET f == fills[i]
      IN /\ f.op = "REJECTED"
         /\ f.after = f.before
         /\ f.availableAfter = f.availableBefore
         /\ f.totalAfter = f.totalBefore
         /\ f.reportAfter = f.reportBefore
         /\ f.historicAfter = f.historicBefore
         /\ pc = "tick"

\* A market order was refused for lack of available balance
C16_Witness ==
  \E i \in FillIdx :
    /\ IsUnderfundedOpen(fills[i])
    /\ fills[i].op = "REJECTED"
    /\ RGt(fills[i].availableBefore, Zero)

\* The fills of the matching pass that apply a pending order
IsOrderFill(f) == f.op \in {"LIMIT_ADD", "LIMIT_CLOSE", "STOP"}

\* The i-th fill of the pass applies an order that an earlier stop fill of the pass,
\* which left the position open, had cancelled by closeOpenOrders
FillsCancelled(i) ==
  \E k \in 1..(i - 1) :
    /\ fills[k].op = "STOP"
    /\ fills[k].pair = fills[i].pair
    /\ IsOrderFill(fills[i])

\* The i-th fill of the pass applies an order an earlier fill of the pass applied
FillsAgain(i) ==
  \E k \in 1..(i - 1) :
    /\ IsOrderFill(fills[k])
    /\ IsOrderFill(fills[i])
    /\ fills[k].id = fills[i].id

\* C17: a pending order is filled at most once, and an order that was cancelled, as by
\* closeOpenOrders after a stop fill, is never filled afterwards, not even later in
\* the same matching pass.
C17_OrderLifecycle ==
  \A i \in FillIdx : ~FillsAgain(i) /\ ~FillsCancelled(i)

\* A fill that took the position from one side of zero to the other
CrossesZero(f) ==
  /\ f.op # "REJECTED"
  /\ RSign(f.before.size) # 0
  /\ RSign(f.after.size) = -RSign(f.before.size)

\* The closed trades counted by the report
ClosedTrades(report) ==
  report.longWinningTrade + report.shortWinningTrade + report.longLostTrade
    + report.shortLostTrade

\* C18: a fill whose quantity makes the size of the position cross zero closes the old
\* side, realizing its PnL and reporting a closed trade, and leaves a position on the
\* new side with the fill price as entry price, the side tag flipped, the margin
\* |size * fillPrice| / leverage, counted as a new trade.
C18_SideFlip ==
  \A i \in FillIdx :
    CrossesZero(fills[i]) =>
      LET f == fills[i]
      IN /\ f.after.positionSide # f.before.positionSide
         /\ f.after.positionSide = (IF RGt(f.after.size, Zero) THEN "LONG" ELSE "SHORT")
         /\ f.after.entryPrice = f.price
         /\ f.after.margin
              = RDiv(RAbs(RMul(f.after.size, f.price)), Int2R(f.after.leverage))
         /\ f.pnl = getPositionPNL(f.before, f.price)
         /\ ClosedTrades(f.reportAfter) = ClosedTrades(f.reportBefore) + 1
         /\ f.reportAfter.totalTrades = f.reportBefore.totalTrades + 1

\* C20: between operations, a position whose size is 0 has entryPrice = 0, margin = 0
\* and unrealizedProfit = 0.
C20_FlatPositionZeroed ==
  \A p \in Pairs :
    wallet.positions[p].size = Zero =>
      /\ wallet.positions[p].entryPrice = Zero
      /\ wallet.positions[p].margin = Zero
      /\ wallet.positions[p].unrealizedProfit = Zero

\* ---------------------------------------------------------------------------
\* Properties of the time loop
\* ---------------------------------------------------------------------------

\* The load returned an empty array for a requested timeframe of the symbol
EmptyHistory ==
  /\ historicCandleData # <<>>
  /\ \E interval \in requestedIntervals(strategyConfigs[ThePair]) :
       historicCandleData[interval] = 0

\* C15 (Scenario D): if the bar array of a requested (symbol, timeframe) is empty, the
\* run aborts before the first tick of the time loop: no order is placed, no fill is
\* applied and no trade record is appended.
C15_EmptyHistoryAborts ==
  EmptyHistory =>
    /\ pc = "exited"
    /\ currentDate = 1
    /\ openOrders = <<>>
    /\ fills = <<>>
    /\ tradesHistoric = <<>>
    /\ finalReport.finalized = FALSE

\* The run stopped on a load whose loop timeframe has candles and whose indicator
\* timeframe has none
C15_Witness ==
  /\ pc = "exited"
  /\ EmptyHistory
  /\ historicCandleData[strategyConfigs[ThePair].loopInterval] > 0

\* The orders a matching pass evaluated for certain: those it filled and those it left
\* pending
EvaluatedByPass ==
  ({ openOrders'[i].id : i \in DOMAIN openOrders' }
     \cup { fills'[i].id : i \in DOMAIN fills' }) \cap DOMAIN orderBars

\* C19: a pending order is evaluated against a given bar at most once during a run,
\* also when the loop timeframe of the symbol is larger than the timeframe that
\* advances the clock, and never against the bar on whose close it was created.
C19_EvaluatedOncePerBar ==
  [][(pc = "orders" /\ pc' = "trade") =>
       \A id \in EvaluatedByPass :
         /\ orderBars[id].evaluated # CurrentCandle
         /\ orderBars[id].created # CurrentCandle]_vars


\* ---------------------------------------------------------------------------
\* Properties of the window indexer
\* ---------------------------------------------------------------------------

\* C21: window indexer monotonicity. Across the calls of updateCandleDataIndexes for one
\* (symbol, timeframe), made with non-decreasing timestamps on a time-ordered candle
\* array, neither the returned start nor the returned end ever decreases.
C21_IndexesMonotone ==
  [][indexes'.start >= indexes.start /\ indexes'.end >= indexes.end]_vars

\* both indexes have advanced
C21_Witness == indexes.start > 0 /\ indexes.end > indexes.start

\* the indexes of the candles of the array that have closed by the date
ClosedBy(candles, date) ==
  {i \in 0..(Len(candles) - 1) : closeTimeAt(candles, i) <= date}

LastOf(S) == CHOOSE i \in S : \A j \in S : j <= i

\* C22: window indexer result. After updateCandleDataIndexes(start, end, bars, t), end is
\* the index of the last bar whose close time is not after t, whenever such a bar exists
\* (also when every bar of the array has closed by t); if no bar has closed by t, end
\* keeps its previous value.
C22_EndIsLastClosed ==
  [][pairCandles # <<>> =>
       IF ClosedBy(pairCandles, currentDate') # {}
       THEN indexes'.end = LastOf(ClosedBy(pairCandles, currentDate'))
       ELSE indexes'.end = indexes.end]_vars

\* C23: window bound. After every call of updateCandleDataIndexes the pair denotes a
\* valid window of bounded length: start <= end and
\* end - start <= MAX_LOADED_CANDLE_LENGTH_API.
C23_WindowBounded ==
  /\ indexes.start <= indexes.end
  /\ indexes.end - indexes.start <= MAX_LOADED_CANDLE_LENGTH_API


\* ---------------------------------------------------------------------------
\* Properties of the trade history
\* ---------------------------------------------------------------------------

\* the fills (opens, reduces, closes, liquidations, forced closes) applied by the last step
AppliedFills == {i \in DOMAIN fills : IsOrderFill(fills[i])}

Range(f) == {f[i] : i \in DOMAIN f}

\* C25: per-symbol error isolation. If the evaluation of one symbol raises an error
\* during a tick, the other configured symbols are still evaluated in that tick and the
\* run continues: the run is never ended by the error, and the symbols that come after
\* the failing one are not skipped.
C25_SymbolErrorIsolated ==
  raised # {} =>
    /\ runPc # "rejected"
    /\ (runPc = "finished" => Range(runSymbols) \ raised \subseteq Range(evaluatedSymbols))


\* ---------------------------------------------------------------------------
\* Properties of several runs
\* ---------------------------------------------------------------------------

Steps(r) == runs # <<>> /\ runs'[r] # runs[r]

\* C26: run isolation. Every simulation run owns its own wallet, pending-order set,
\* counters and trade history; with several runs interleaved, a step of one run leaves
\* the wallet, orders, counters, report and history of every other run unchanged.
C26_RunIsolation ==
  [][\A r \in DOMAIN runs : \A q \in DOMAIN runs :
       (r # q /\ Steps(r)) =>
         /\ runs'[q] = runs[q]
         /\ \A s \in Stores : heap'[runs'[q].refs[s]] = heap[runs[q].refs[s]]]_vars

\* both runs have traded and their stores differ
C26_Witness ==
  /\ runs # <<>>
  /\ botView(heap, runs[1]).tradesHistoric # <<>>
  /\ botView(heap, runs[2]).openOrders # <<>>
  /\ botView(heap, runs[1]).wallet # botView(heap, runs[2]).wallet
  /\ botView(heap, runs[1]).tradesHistoric # botView(heap, runs[2]).tradesHistoric


\* ---------------------------------------------------------------------------
\* Properties of the maximum trade duration
\* ---------------------------------------------------------------------------

MaxTradeDuration == strategyConfigs[ThePair].maxTradeDuration

\* C27: maximum trade duration. With maxTradeDuration D configured, the counter of the
\* symbol stays within 1..D between strategy evaluations; an evaluation that finds the
\* position open lowers it by one, and the one that would bring it to 0 (the D-th in a
\* row) force-closes the position: size 0, the pending orders of the symbol cancelled,
\* counter back at D. An evaluation that finds the position flat leaves the counter at D.
\* Hence no position stays open across more than D consecutive evaluations.
C27_MaxTradeDuration ==
  [][(pc = "trade" /\ pc' = "tick" /\ MaxTradeDuration > 0) =>
       /\ counters[ThePair] \in 1..MaxTradeDuration
       /\ (ThePosition.size # Zero /\ counters[ThePair] = 1) =>
            /\ ThePosition'.size = Zero
            /\ PendingOrders' = <<>>
            /\ counters'[ThePair] = MaxTradeDuration
       /\ (ThePosition.size # Zero /\ counters[ThePair] > 1) =>
            counters'[ThePair] = counters[ThePair] - 1
       /\ ThePosition.size = Zero => counters'[ThePair] = MaxTradeDuration]_vars

\* a position has just been force-closed at its third evaluation
C27_Witness ==
  /\ pc = "tick"
  /\ MaxTradeDuration = 3
  /\ \E i \in FillIdx : fills[i].op = "DURATION"


\* ---------------------------------------------------------------------------
\* Properties of the streak and extreme statistics
\* ---------------------------------------------------------------------------

\* the largest magnitude among the realized PnLs of one sign, 0 when there is none
RECURSIVE LargestOf(_, _)
LargestOf(pnls, wins) ==
  IF pnls = <<>> THEN Zero
  ELSE LET rest == LargestOf(Tail(pnls), wins)
           counts == IF wins THEN RGt(Head(pnls), Zero) ELSE RLt(Head(pnls), Zero)
       IN IF counts /\ RGt(RAbs(Head(pnls)), rest) THEN RAbs(Head(pnls)) ELSE rest

\* the length of the longest run of consecutive realized PnLs of one sign; a streak
\* ends when a PnL of the other sign follows, and the last streak counts
RECURSIVE LongestStreak(_, _, _, _)
LongestStreak(pnls, wins, current, best) ==
  IF pnls = <<>> THEN Max(current, best)
  ELSE LET same == IF wins THEN RGt(Head(pnls), Zero) ELSE RLt(Head(pnls), Zero)
           other == IF wins THEN RLt(Head(pnls), Zero) ELSE RGt(Head(pnls), Zero)
       IN LongestStreak(Tail(pnls), wins,
                        IF same THEN current + 1 ELSE IF other THEN 0 ELSE current,
                        Max(current, best))

\* C28: streak and extreme statistics. In the finalized report maxProfit and maxLoss
\* are the largest single realized profit and loss of the run (to two decimals, the
\* loss as a negative number), and maxConsecutiveWinsCount and
\* maxConsecutiveLossesCount are the lengths of the longest runs of consecutive
\* realized PnLs of the same sign, the last streak of the run included.
C28_StreaksAndExtremes ==
  finalReport.finalized =>
    /\ RCmp(finalReport.maxProfit, decimalFloor(LargestOf(realizedPnLs, TRUE), 2)) = 0
    /\ RCmp(finalReport.maxLoss,
            RNeg(decimalFloor(LargestOf(realizedPnLs, FALSE), 2))) = 0
    /\ finalReport.maxConsecutiveWinsCount = LongestStreak(realizedPnLs, TRUE, 0, 0)
    /\ finalReport.maxConsecutiveLossesCount = LongestStreak(realizedPnLs, FALSE, 0, 0)


\* ---------------------------------------------------------------------------
\* Properties of the parameter grid
\* ---------------------------------------------------------------------------

\* the value list of every parameter that declares an optimization
ValueLists ==
  [j \in 1..Len(parametersToOptimize(hyperParameters)) |->
     computeParameterValues(parametersToOptimize(hyperParameters)[j].config)]

\* every assignment of one value of its list to each optimized parameter
CartesianProduct ==
  LET entries == parametersToOptimize(hyperParameters)
      choices == UNION {{[value |-> ValueLists[j][k]] : k \in 1..Len(ValueLists[j])} :
                        j \in 1..Len(entries)}
  IN {c \in [{entries[j].name : j \in 1..Len(entries)} -> choices] :
        \A j \in 1..Len(entries) :
          \E k \in 1..Len(ValueLists[j]) : c[entries[j].name].value = ValueLists[j][k]}

GridPassCorrect(pass) ==
  /\ Len(pass) = totalCombinations(ValueLists)
  /\ {pass[k] : k \in 1..Len(pass)} = CartesianProduct
  /\ \A k, l \in 1..Len(pass) : k # l => pass[k] # pass[l]

\* C29: parameter grid. generateCombinations yields exactly the cartesian product of the
\* value lists of the parameters that declare an optimization: as many combinations as
\* the product of the list sizes, each distinct assignment exactly once, in the same
\* order every time the sequence is restarted, after which it terminates.
C29_ParameterGrid ==
  /\ [](/\ \A p \in 1..Len(passes) : GridPassCorrect(passes[p]) /\ passes[p] = passes[1]
        /\ Len(generator.yielded) <= totalCombinations(generator.values))
  /\ [](hyperParameters # <<>> => <>(Len(passes) = MaxPasses))

\* a grid of three parameters, one of them a range its step does not divide, generated
\* twice
C29_Witness ==
  /\ Len(passes) = MaxPasses
  /\ Len(parametersToOptimize(hyperParameters)) = 3
  /\ \E j \in 1..3 : hyperParameters[j].config.step = 2
  /\ Len(passes[1]) >= 12


\* ---------------------------------------------------------------------------
\* Properties of the tick
\* ---------------------------------------------------------------------------

\* the order of the operations of a tick: the index update, then for a symbol with
\* enough history the liquidation check, the order matching and the strategy slot
ProtocolOrder ==
  { <<"load", "index">>, <<"index", "margin">>, <<"index", "tick">>,
    <<"margin", "orders">>, <<"orders", "trade">>, <<"trade", "tick">>,
    <<"tick", "index">>, <<"tick", "done">> }

LedgerUnchanged ==
  UNCHANGED <<wallet, openOrders, strategyReport, tradesHistoric, counters>>

\* C30: per-tick protocol. In every tick, for a symbol with enough history, the
\* liquidation check runs before the order matching, which runs before the strategy
\* evaluation; the strategy evaluation runs only on the ticks aligned to the loop
\* timeframe of the symbol; and for a symbol without enough history none of the three
\* runs, so its position, its orders and the wallet are left unchanged.
C30_TickProtocol ==
  [][/\ pc' # pc => <<pc, pc'>> \in ProtocolOrder
     /\ (pc = "index" /\ pc' = "margin") =>
          indexes'.end - indexes'.start >= MAX_LOADED_CANDLE_LENGTH_API
     /\ (pc = "index" /\ pc' # "margin") => (pc' \in {"index", "tick"} /\ LedgerUnchanged)
     /\ (pc = "index" /\ indexes'.end - indexes'.start < MAX_LOADED_CANDLE_LENGTH_API) =>
          pc' \in {"index", "tick"}
     /\ (pc = "trade" /\ currentDate % strategyConfigs[ThePair].loopInterval # 0) =>
          LedgerUnchanged]_vars

\* a tick skipped for lack of history while a position is open, on a timeframe twice
\* the clock's
C30_Witness ==
  /\ pc = "tick"
  /\ ~enoughHistory(indexes)
  /\ currentDate > 1
  /\ ThePosition.size # Zero
  /\ strategyConfigs[ThePair].loopInterval = 2

\* ---------------------------------------------------------------------------
\* Properties of the matching pass and of the accounts
\* ---------------------------------------------------------------------------

\* The orders of the pass were applied from the highest price to the lowest
FilledByDescendingPrice ==
  \A i, j \in FillIdx :
    (i < j /\ IsOrderFill(fills[i]) /\ IsOrderFill(fills[j])) =>
      RGe(fills[i].price, fills[j].price)

\* The pending orders of the symbol whose price lies inside the bar of the tick
OrdersInBar == {o \in Range(PendingOrders) : InRange(bar, o.price)}

\* o1 is the highest-priced order inside the bar, o2 lies below it inside the bar, and
\* the quantity of o1 is the whole position
FirstClosesInFull(o1, o2) ==
  /\ o1 \in OrdersInBar
  /\ o2 \in OrdersInBar
  /\ RGt(o1.price, o2.price)
  /\ \A o \in OrdersInBar : RGe(o1.price, o.price)
  /\ ThePosition.size # Zero
  /\ o1.quantity = RNeg(ThePosition.size)

\* C31: tie-break precedence. Within one matching pass the pending orders of a symbol
\* are applied in non-increasing price order, and when a take-profit and a stop both
\* lie inside the bar and the higher-priced one closes the position in full, the
\* lower-priced one is cancelled without filling.
C31_TieBreakPrecedence ==
  [][pc = "orders" =>
       /\ FilledByDescendingPrice'
       /\ \A o1, o2 \in Range(PendingOrders) :
            FirstClosesInFull(o1, o2) =>
              /\ \A i \in 1..Len(fills') : fills'[i].id # o2.id
              /\ \A k \in 1..Len(openOrders') : openOrders'[k].id # o2.id]_vars

\* The fee rate of a fill, in percent: taker for MARKET and STOP_MARKET, maker for
\* LIMIT and STOP
FeeRate(type) == IF type \in {"MARKET", "STOP_MARKET"} THEN TAKER_FEES ELSE MAKER_FEES

\* The realized PnL a fill credits, none for a fill that opens or adds
CreditedPnL(f) == IF IsNaN(f.pnl) THEN Zero ELSE f.pnl

\* C32: fees. Every fill debits exactly one fee of |quantity| * price * rate from the
\* wallet balance, with the taker rate for MARKET and STOP_MARKET fills and the maker
\* rate for LIMIT and STOP fills, and no pending order is charged twice.
C32_OneFeePerFill ==
  \A i \in FillIdx :
    fills[i].op # "REJECTED" =>
      LET f == fills[i]
      IN /\ f.fee = RMul(RMul(RAbs(f.quantity), f.price), Percent(FeeRate(f.type)))
         /\ f.totalAfter = RSub(RAdd(f.totalBefore, CreditedPnL(f)), f.fee)
         /\ \A k \in 1..(i - 1) : ~(IsOrderFill(f) /\ fills[k].id = f.id)

\* The strategy answers with an entry signal against the open position, and with no
\* signal on its side
OppositeSignal ==
  \/ (RGt(ThePosition.size, Zero) /\ bar.sell /\ ~bar.buy)
  \/ (RLt(ThePosition.size, Zero) /\ bar.buy /\ ~bar.sell)

\* size, side, entry price and margin of a position
Holding(position) ==
  <<position.size, position.positionSide, position.entryPrice, position.margin>>

\* C33: when canOpenNewPositionToCloseLast is false and the open position of the symbol
\* still has pending take-profit or stop orders, an opposite-side entry signal leaves
\* the position and its pending orders unchanged, whether pyramiding is allowed or not.
C33_NoReversalWhileOrdersPending ==
  [][(/\ pc = "trade"
      /\ ~strategyConfigs[ThePair].canOpenNewPositionToCloseLast
      /\ strategyConfigs[ThePair].maxTradeDuration = 0
      /\ PendingOrders # <<>>
      /\ OppositeSignal) =>
        /\ Holding(wallet'.positions[ThePair]) = Holding(ThePosition)
        /\ openOrders' = openOrders]_vars

\* C34: whenever a position is not flat its side tag agrees with the sign of its size:
\* LONG if and only if size > 0, SHORT if and only if size < 0, after any sequence of
\* market, limit, stop and stop-market fills.
C34_SideAgreesWithSize ==
  \A p \in Pairs :
    LET position == wallet.positions[p]
    IN position.size # Zero =>
         /\ position.positionSide = "LONG" <=> RGt(position.size, Zero)
         /\ position.positionSide = "SHORT" <=> RLt(position.size, Zero)

\* Every position of the wallet is flat
AllFlat == \A p \in Pairs : wallet.positions[p].size = Zero

\* C35: whenever every position of the wallet is flat, availableBalance equals
\* totalWalletBalance: a close, by a market order, a limit or stop fill, a liquidation
\* or a max-duration close, releases the margin it locked and credits its realized PnL.
C35_FlatWalletFullyAvailable ==
  AllFlat => wallet.availableBalance = wallet.totalWalletBalance

\* A fill that closed a part of the position and left the rest of it open
IsPartialReduce(f) ==
  /\ ~IsNaN(f.pnl)
  /\ f.op # "REJECTED"
  /\ f.after.size # Zero
  /\ RSign(f.after.size) = RSign(f.before.size)
  /\ RLt(RAbs(f.after.size), RAbs(f.before.size))

\* The PnL of the quantity a fill closed, at the entry price the position had
ClosedQuantityPnL(f) ==
  RMul(SideSign(f.before), RMul(RAbs(f.quantity), RSub(f.price, f.before.entryPrice)))

\* A stop order of the given share of the position, at the given price
StopOf(position, price, share) ==
  [id |-> 0, pair |-> ThePair, type |-> "STOP",
   side |-> IF RGt(position.size, Zero) THEN "SELL" ELSE "BUY",
   price |-> price, quantity |-> RNeg(RMul(position.size, share))]

\* The total wallet balance after the position was closed at the price in one fill,
\* and in two fills of one half each
ClosedInOne(price) ==
  fillStop(Bot, StopOf(ThePosition, price, Int2R(1))).wallet.totalWalletBalance

ClosedInTwo(price) ==
  fillStop(fillStop(Bot, StopOf(ThePosition, price, <<1, 2>>)),
           StopOf(ThePosition, price, <<1, 2>>)).wallet.totalWalletBalance

\* C36: partial closes are path-independent. Reducing a position to flat through
\* several partial fills at the same price credits totalWalletBalance in total with the
\* same realized PnL as closing it in a single fill at that price, and the PnL realized
\* by a partial reduce is that of the closed quantity only.
C36_PartialClosePathIndependent ==
  /\ \A i \in FillIdx :
       IsPartialReduce(fills[i]) => fills[i].pnl = ClosedQuantityPnL(fills[i])
  /\ (ThePosition.size # Zero /\ SideSign(ThePosition) = Int2R(RSign(ThePosition.size))) =>
       ClosedInTwo(bar.close) = ClosedInOne(bar.close)

\* The fills of the pass that applied the pending order of the given identifier
FillsOf(id) == {i \in FillIdx : IsOrderFill(fills[i]) /\ fills[i].id = id}

\* The first and the last fill of the pass for the order the i-th fill applies
FirstOf(id) == CHOOSE i \in FillsOf(id) : \A k \in FillsOf(id) : i <= k

FinalOf(id) == CHOOSE i \in FillsOf(id) : \A k \in FillsOf(id) : i >= k

\* C37: a fill of a pending LIMIT, STOP or STOP_MARKET order changes the signed size of
\* the position by exactly the quantity of the order: the quantity of a filled order is
\* applied once, whatever the available balance is.
C37_QuantityAppliedOnce ==
  pc = "trade" =>
    \A i \in FillIdx :
      IsOrderFill(fills[i]) =>
        fills[FinalOf(fills[i].id)].after.size
          = RAdd(fills[FirstOf(fills[i].id)].before.size, fills[i].quantity)

\* C38: at the end of every tick a symbol whose position is flat has no pending orders
\* (a rejected entry market order leaves no derived take-profit or stop order pending),
\* and no pending order fills against a flat position.
C38_FlatHasNoPendingOrders ==
  /\ (pc = "tick" /\ ThePosition.size = Zero) => PendingOrders = <<>>
  /\ pc = "trade" =>
       \A i \in FillIdx :
         (IsOrderFill(fills[i]) /\ i = FirstOf(fills[i].id)) =>
            fills[i].before.size # Zero

\* C39: in every reachable state the closed trades counted as won or lost do not
\* outnumber the trades opened: longWinningTrade + shortWinningTrade + longLostTrade +
\* shortLostTrade <= totalTrades, every closure, a liquidation included, being counted
\* once.
C39_ClosedWithinOpened ==
  ClosedTrades(strategyReport) <= strategyReport.totalTrades

\* C40: the fee total accumulated in strategyReport.totalFees during a run equals the
\* sum of all the fees debited from totalWalletBalance, for opening and closing fills
\* alike.
C40_TotalFeesIsFeesDebited ==
  strategyReport.totalFees = sumFees

====
